---------------------------- MODULE Spec2Model ----------------------------
(***************************************************************************)
(* Buddy allocator (kernel/buddy.c) and slab allocator (kernel/slab.c) of  *)
(* the xv6-riscv kernel, with the two deployment modes of kernel/kalloc.c. *)
(*                                                                         *)
(* Addresses are byte addresses counted from KERNBASE (0x80000000).        *)
(* KERNBASE is a multiple of 2^31, so an address and its offset from       *)
(* KERNBASE have the same remainder modulo every block size the buddy      *)
(* knows (at most 2^MAX_ORDER * BLOCK_SIZE = 2^27).  The null pointer is 0;*)
(* no block lies at offset 0 because the kernel image sits there.          *)
(***************************************************************************)
EXTENDS Integers, Sequences, FiniteSets, Bags, TLC

\* ------------------------------------------------------------------------
\* Program constants
\* ------------------------------------------------------------------------
BLOCK_SIZE == 4096
MIN_ORDER == 0
MAX_ORDER == 15
BUDDY_ORDERS == MAX_ORDER - MIN_ORDER + 1
NULL == 0
\* sizeof(slab_t): two pointers, three ints, padding, one pointer (LP64)
SLAB_T_SIZE == 40
MIN_OBJS_PER_SLAB == 4
\* sysslab.c: the private slab buddy owns the top 8192 pages below PHYSTOP
SLAB_TEST_BLOCKS == 8192
\* memlayout.h: PHYSTOP is KERNBASE + 128 MiB
PHYSTOP == 128 * 1024 * 1024
\* slab.h
SMALL_BUF_MIN_ORDER == 5
SMALL_BUF_MAX_ORDER == 17
NUM_SMALL_BUF_SIZES == SMALL_BUF_MAX_ORDER - SMALL_BUF_MIN_ORDER + 1

\* ------------------------------------------------------------------------
\* Bounds of the exploration
\* ------------------------------------------------------------------------
\* largest small region handed to buddy_init, in pages
MaxRegionPages == 5
\* largest number of blocks a buddy client holds at once
MaxOutstanding == 2
\* largest number of caches created
MaxCaches == 1
\* largest number of kmem_cache_alloc calls started, over all caches
MaxAllocs == 3
\* kmem_cache_shrink calls on one cache that are told apart
MaxShrinks == 3
\* the kernel threads calling into the slab allocator
Threads == {1, 2}

VARIABLES
    phase,      \* "boot" before the allocator is initialised, then "run"
    b,          \* struct buddy_allocator: start, total_size, max_order, free[]
    b_out,      \* bag of <<addr, order>> returned by buddy_alloc, not yet freed
    b_init,     \* the free lists as buddy_init left them
    b_ret,      \* what the last buddy_alloc returned (NULL = 0)
    mode,       \* "kernel" (SLAB_KERNEL: one global buddy) or "private"
    caches,     \* kmem_cache_t objects, by the address of their descriptor page
    registry,   \* slab_state.caches: head of the global cache list
    slabs,      \* slab_t headers in memory, by address (stale ones included)
    held,       \* bag of the objects clients hold: [obj, cache, slab, i]
    pc,         \* where each thread is: "idle", "alloc" or "free"
    loc,        \* each thread's locals inside an operation: cache, slab, i, obj
    small_buf_caches,  \* slab.c small_buf_caches[]: the size-N cache of each
                \* size class, NULL until kmalloc creates it
    objmem,     \* what object slots hold, by slot address: [pat, word, len]
    last,       \* the call observed last: its name, arguments, result and
                \* the state it started from (NoCall: none observed)
    pipe_cache, \* pipe.c pipe_cache: the cache of struct pipe, NULL until made
    pipe_cache_lock,        \* pipe.c pipe_cache_lock: name, locked, cpu
    pipe_cache_lock_inited  \* pipe.c pipe_cache_lock_inited: 0 or 1

buddyVars == <<b, b_out, b_init, b_ret>>
slabVars == <<mode, caches, registry, slabs, held, pc, loc>>
\* state that only some of the specifications below let change
pipeVars == <<pipe_cache, pipe_cache_lock, pipe_cache_lock_inited>>
callVars == <<small_buf_caches, objmem, last, pipeVars>>
vars == <<phase, b, b_out, b_init, b_ret, mode, caches, registry, slabs, held, pc, loc,
          small_buf_caches, objmem, last,
          pipe_cache, pipe_cache_lock, pipe_cache_lock_inited>>

NoCall == [op |-> "none"]

\* ------------------------------------------------------------------------
\* Helpers
\* ------------------------------------------------------------------------
Range(s) == {s[i] : i \in 1..Len(s)}

RECURSIVE RemoveFirst(_, _)
\* unlink the first list node whose address is x (*pp = curr->next)
RemoveFirst(s, x) ==
    IF s = <<>> THEN <<>>
    ELSE IF Head(s) = x THEN Tail(s)
    ELSE <<Head(s)>> \o RemoveFirst(Tail(s), x)

\* x ^ bit, for bit a power of two
XorBit(x, bit) == IF (x \div bit) % 2 = 1 THEN x - bit ELSE x + bit

\* riscv.h: #define PGROUNDUP(sz) (((sz)+PGSIZE-1) & ~(PGSIZE-1))
PGROUNDUP(sz) == ((sz + BLOCK_SIZE - 1) \div BLOCK_SIZE) * BLOCK_SIZE

idx(order) == order - MIN_ORDER

\* (1UL << order) * BLOCK_SIZE
BlockBytes(order) == (2 ^ order) * BLOCK_SIZE

\* ------------------------------------------------------------------------
\* buddy_init
\* ------------------------------------------------------------------------
EmptyFree == [i \in 0..(BUDDY_ORDERS - 1) |-> <<>>]

\* the allocator object before buddy_init (static storage, zeroed)
BuddyZero == [start |-> 0, total_size |-> 0, max_order |-> 0, free |-> EmptyFree]

RECURSIVE FindMaxOrd(_, _)
\* "Find the highest order that fits at all"
FindMaxOrd(max_ord, total) ==
    IF max_ord >= MIN_ORDER /\ BlockBytes(max_ord) > total
    THEN FindMaxOrd(max_ord - 1, total)
    ELSE max_ord

\* only the one block of the largest order is placed
PlaceLargest(order, addr, remaining, free) ==
    [free EXCEPT ![idx(order)] = <<addr>>]

RECURSIVE Place(_, _, _, _)
\* greedy placement: from the largest order down, push blocks on free[order]
Place(order, addr, remaining, free) ==
    IF order < MIN_ORDER THEN free
    ELSE IF remaining >= BlockBytes(order)
    THEN Place(order, addr + BlockBytes(order), remaining - BlockBytes(order),
               [free EXCEPT ![idx(order)] = <<addr>> \o @])
    ELSE Place(order - 1, addr, remaining, free)

buddy_init(bb, start, end) ==
    LET s == PGROUNDUP(start)
        total == end - s
        max_ord == FindMaxOrd(MAX_ORDER, total)
    IN  IF max_ord < MIN_ORDER
        THEN [bb EXCEPT !.start = s, !.free = EmptyFree, !.max_order = MIN_ORDER - 1]
        ELSE [start |-> s, total_size |-> total, max_order |-> max_ord,
              free |-> Place(max_ord, s, total, EmptyFree)]

\* ------------------------------------------------------------------------
\* buddy_alloc
\* ------------------------------------------------------------------------
\* only the list of the order asked for is looked at
FirstFitExact(bb, o) == IF bb.free[idx(o)] = <<>> THEN bb.max_order + 1 ELSE o

RECURSIVE FirstFit(_, _)
\* for (o = order; o <= b->max_order; o++) if (b->free[idx(o)]) break;
FirstFit(bb, o) ==
    IF o <= bb.max_order /\ bb.free[idx(o)] = <<>> THEN FirstFit(bb, o + 1) ELSE o

\* a split keeps the lower half and frees the upper half
SplitAddrLower(bl, size) == bl
SplitAddr(bl, size) == bl + size

\* a split that dropped the upper halves
SplitLosing(free, bl, o, order) == free

RECURSIVE Split(_, _, _, _)
\* while (o > order) { o--; push (bl + size) on free[o] }
Split(free, bl, o, order) ==
    IF o > order
    THEN Split([free EXCEPT ![idx(o - 1)] = <<SplitAddr(bl, BlockBytes(o - 1))>> \o @],
               bl, o - 1, order)
    ELSE free

\* result: the returned address (NULL on failure) and the allocator afterwards
buddy_alloc(bb, order) ==
    IF order < MIN_ORDER \/ order > bb.max_order
    THEN [ret |-> NULL, b |-> bb]
    ELSE LET o == FirstFit(bb, order)
         IN  IF o > bb.max_order
             THEN [ret |-> NULL, b |-> bb]
             ELSE LET bl == Head(bb.free[idx(o)])
                      popped == [bb.free EXCEPT ![idx(o)] = Tail(@)]
                  IN  [ret |-> bl, b |-> [bb EXCEPT !.free = Split(popped, bl, o, order)]]

\* ------------------------------------------------------------------------
\* buddy_free
\* ------------------------------------------------------------------------
\* the buddy is found at the XOR of the offset from the raw address
BuddyAddrAbs(start, block, size) == XorBit(block, size)
\* buddy_addr = ((block - b->start) ^ size) + b->start
BuddyAddr(start, block, size) == XorBit(block - start, size) + start

\* the merged block keeps the address freed
MergedBlockSelf(block, buddy_addr) == block
\* if (buddy_addr < block) block = buddy_addr;
MergedBlock(block, buddy_addr) == IF buddy_addr < block THEN buddy_addr ELSE block

\* the walk never finds the buddy
BuddyOnListNever(list, buddy_addr) == FALSE
\* while (curr) { if ((uint64)curr == buddy_addr) break; ... }
BuddyOnList(list, buddy_addr) == buddy_addr \in Range(list)

RECURSIVE Coalesce(_, _, _, _)
\* while (order < b->max_order) { ... } then push the block on free[order]
Coalesce(bb, free, block, order) ==
    LET buddy_addr == BuddyAddr(bb.start, block, BlockBytes(order))
    IN  IF order < bb.max_order /\ BuddyOnList(free[idx(order)], buddy_addr)
        THEN Coalesce(bb, [free EXCEPT ![idx(order)] = RemoveFirst(@, buddy_addr)],
                      MergedBlock(block, buddy_addr), order + 1)
        ELSE [free EXCEPT ![idx(order)] = <<block>> \o @]

\* a range check without the upper limit
OutOfRegionBelow(bb, addr) == addr < bb.start
\* (uint64)addr < b->start || (uint64)addr >= b->start + b->total_size
OutOfRegion(bb, addr) == addr < bb.start \/ addr >= bb.start + bb.total_size

buddy_free(bb, addr, order) ==
    IF addr = NULL \/ order < MIN_ORDER \/ order > bb.max_order THEN bb
    ELSE IF OutOfRegion(bb, addr) THEN bb
    ELSE [bb EXCEPT !.free = Coalesce(bb, bb.free, addr, order)]

\* ------------------------------------------------------------------------
\* A buddy allocator driven directly by a client
\* ------------------------------------------------------------------------
\* regions handed to buddy_init: small ones of every page count, with an
\* aligned or unaligned start, a whole or a ragged end, and one region of
\* more than two blocks of the largest order
RegionStarts == {BLOCK_SIZE, BLOCK_SIZE + 100, 3 * BLOCK_SIZE}
RegionSlack == {0, 100}
BigRegionPages == 2 * (2 ^ MAX_ORDER) + 3
Regions ==
    {<<s, PGROUNDUP(s) + n * BLOCK_SIZE + k>> :
        s \in RegionStarts, n \in 0..MaxRegionPages, k \in RegionSlack}
    \cup {<<3 * BLOCK_SIZE, 3 * BLOCK_SIZE + BigRegionPages * BLOCK_SIZE>>}
\* the orders a client asks for: the small ones, the largest ones, and one
\* beyond each end of [MIN_ORDER, MAX_ORDER]
OrderInputs ==
    ((MIN_ORDER - 1)..(MIN_ORDER + 2)) \cup ((MAX_ORDER - 1)..(MAX_ORDER + 1))

NoLocals == [cache |-> NULL, slab |-> NULL, i |-> 0, obj |-> NULL]

\* the slab layer before kmem_init: no cache, every thread outside the allocator
SlabZero ==
    /\ caches = <<>>
    /\ registry = NULL
    /\ slabs = <<>>
    /\ held = EmptyBag
    /\ pc = [t \in Threads |-> "idle"]
    /\ loc = [t \in Threads |-> NoLocals]

\* slab.c:35 small_buf_caches[] in zeroed static storage; no slot written,
\* no call observed
\* a struct spinlock in zeroed static storage
LockZero == [name |-> "", locked |-> 0, cpu |-> 0]

CallZero ==
    /\ small_buf_caches = [i \in 0..(NUM_SMALL_BUF_SIZES - 1) |-> NULL]
    /\ objmem = <<>>
    /\ last = NoCall
    /\ pipe_cache = NULL
    /\ pipe_cache_lock = LockZero
    /\ pipe_cache_lock_inited = 0

InitBuddy ==
    /\ phase = "boot"
    /\ b = BuddyZero
    /\ b_out = EmptyBag
    /\ b_init = EmptyFree
    /\ b_ret = NULL
    /\ mode = "buddy"
    /\ SlabZero
    /\ CallZero

\* buddy_init(b, start, end)
BuddyInitOp ==
    /\ phase = "boot"
    /\ \E r \in Regions :
          LET nb == buddy_init(b, r[1], r[2])
          IN  /\ b' = nb
              /\ b_init' = nb.free
    /\ phase' = "run"
    /\ UNCHANGED <<b_out, b_ret>>
    /\ UNCHANGED slabVars

\* p = buddy_alloc(b, order)
BuddyAllocOrder(order) ==
    /\ phase = "run"
    /\ BagCardinality(b_out) < MaxOutstanding
    /\ LET r == buddy_alloc(b, order)
       IN  /\ b' = r.b
           /\ b_ret' = r.ret
           /\ b_out' = IF r.ret = NULL THEN b_out
                       ELSE b_out (+) SetToBag({<<r.ret, order>>})
    /\ UNCHANGED <<phase, b_init>>
    /\ UNCHANGED slabVars

BuddyAllocOp == \E order \in OrderInputs : BuddyAllocOrder(order)

\* buddy_free(b, p, order) for a block an earlier buddy_alloc(b, order) returned
BuddyFreeOp ==
    /\ phase = "run"
    /\ \E blk \in BagToSet(b_out) :
          /\ b' = buddy_free(b, blk[1], blk[2])
          /\ b_out' = b_out (-) SetToBag({blk})
    /\ UNCHANGED <<phase, b_init, b_ret>>
    /\ UNCHANGED slabVars

NextBuddy ==
    \/ BuddyInitOp /\ UNCHANGED callVars
    \/ BuddyAllocOp /\ UNCHANGED callVars
    \/ BuddyFreeOp /\ UNCHANGED callVars

SpecBuddy == InitBuddy /\ [][NextBuddy]_vars

\* ------------------------------------------------------------------------
\* Properties of the buddy allocator
\* ------------------------------------------------------------------------
\* every node of every free list, as <<order, position in the list>>
FreeNodes ==
    UNION {{<<o, i>> : i \in 1..Len(b.free[idx(o)])} : o \in MIN_ORDER..MAX_ORDER}
NodeAddr(e) == b.free[idx(e[1])][e[2]]

\* the byte ranges [a1, a1 + 2^o1 pages) and [a2, a2 + 2^o2 pages) intersect
Overlap(a1, o1, a2, o2) ==
    /\ a1 < a2 + BlockBytes(o2)
    /\ a2 < a1 + BlockBytes(o1)

FreePages(free) ==
    LET RECURSIVE Sum(_)
        Sum(o) == IF o > MAX_ORDER THEN 0
                  ELSE Len(free[idx(o)]) * (2 ^ o) + Sum(o + 1)
    IN  Sum(MIN_ORDER)

\* the free lists as a bag of <<order, address>>
FreeBag(free) ==
    LET RECURSIVE Collect(_)
        Collect(o) ==
            IF o > MAX_ORDER THEN EmptyBag
            ELSE LET RECURSIVE OfList(_)
                     OfList(l) == IF l = <<>> THEN EmptyBag
                                  ELSE SetToBag({<<o, Head(l)>>}) (+) OfList(Tail(l))
                 IN  OfList(free[idx(o)]) (+) Collect(o + 1)
    IN  Collect(MIN_ORDER)

\* C1: the blocks on the free lists and the outstanding blocks are pairwise
\* non-overlapping: no address is on two lists or twice on one, no two free
\* blocks overlap, and no outstanding block overlaps a free block or another
\* outstanding block (nor was handed out twice).
BuddyExclusion ==
    /\ \A e1 \in FreeNodes, e2 \in FreeNodes :
          e1 # e2 => ~Overlap(NodeAddr(e1), e1[1], NodeAddr(e2), e2[1])
    /\ \A blk \in BagToSet(b_out) :
          /\ CopiesIn(blk, b_out) = 1
          /\ \A e \in FreeNodes : ~Overlap(blk[1], blk[2], NodeAddr(e), e[1])
          /\ \A other \in BagToSet(b_out) :
                other # blk => ~Overlap(blk[1], blk[2], other[1], other[2])

\* C1 witness: two blocks are outstanding, one of them just returned by
\* buddy_alloc, while at least two blocks are free
BuddyExclusionWitness ==
    /\ b_ret # NULL
    /\ BagCardinality(b_out) >= 2
    /\ Cardinality(FreeNodes) >= 2

\* C2: once every allocated block has been freed, the free lists hold the
\* same multiset of (order, address) as right after buddy_init.
BuddyRoundTrip ==
    (phase = "run" /\ b_out = EmptyBag) => FreeBag(b.free) = FreeBag(b_init)

\* C2 witness: a block was allocated from a region of more than one block
\* and everything has been freed again
BuddyRoundTripWitness ==
    /\ phase = "run"
    /\ b_ret # NULL
    /\ b_out = EmptyBag
    /\ BagCardinality(FreeBag(b_init)) >= 2

\* C3: for every free block of order o < max_order, its buddy at
\* start + ((a - start) XOR 2^o * PAGE_SIZE) is not on free[o].
BuddyMaximality ==
    \A e \in FreeNodes :
        e[1] < b.max_order =>
            LET off == NodeAddr(e) - b.start
                size == BlockBytes(e[1])
                buddy == b.start + (IF (off \div size) % 2 = 1 THEN off - size
                                    ELSE off + size)
            IN  buddy \notin Range(b.free[idx(e[1])])

\* C3 witness: after a free, with blocks still outstanding, a free block of
\* an order below max_order sits in a region whose base is no multiple of
\* that block's size
BuddyMaximalityWitness ==
    /\ phase = "run"
    /\ b_out # EmptyBag
    /\ \E e \in FreeNodes :
          /\ e[1] < b.max_order
          /\ e[1] >= 1
          /\ b.start % BlockBytes(e[1]) # 0

\* C4: every address a on free[o] lies in the region and is aligned
\* relative to its base: start <= a, a + 2^o * PAGE_SIZE <= start +
\* total_size, (a - start) mod (2^o * PAGE_SIZE) = 0.
BuddyFreeInRegion ==
    \A e \in FreeNodes :
        LET a == NodeAddr(e)
        IN  /\ b.start <= a
            /\ a + BlockBytes(e[1]) <= b.start + b.total_size
            /\ (a - b.start) % BlockBytes(e[1]) = 0

\* C4 witness: a region whose size is no power of two, after a coalesce has
\* put back a block of order 1 or more while a block is still outstanding
BuddyFreeInRegionWitness ==
    /\ phase = "run"
    /\ b.total_size % BLOCK_SIZE # 0
    /\ b_out # EmptyBag
    /\ FreePages(b.free) + 1 < FreePages(b_init)
    /\ \E e \in FreeNodes : e[1] >= 1 /\ NodeAddr(e) # b.start

\* C9: every block returned by buddy_alloc(b, k) is at an address that is a
\* multiple of 2^k * PAGE_SIZE, whatever page-aligned base buddy_init got.
BuddyAbsoluteAlignment ==
    \A blk \in BagToSet(b_out) : blk[1] % BlockBytes(blk[2]) = 0

\* ------------------------------------------------------------------------
\* The buddy allocator with each buddy_alloc call observed
\* ------------------------------------------------------------------------
\* p = buddy_alloc(b, order), with the order asked for and the allocator as
\* it was when the call was made
BuddyAllocCall ==
    \E order \in OrderInputs :
        /\ BuddyAllocOrder(order)
        /\ last' = [op |-> "buddy_alloc", order |-> order, pre |-> b]
        /\ UNCHANGED <<small_buf_caches, objmem, pipeVars>>

NextBuddyCalls ==
    \/ BuddyInitOp /\ last' = NoCall /\ UNCHANGED <<small_buf_caches, objmem, pipeVars>>
    \/ BuddyAllocCall
    \/ BuddyFreeOp /\ last' = NoCall /\ UNCHANGED <<small_buf_caches, objmem, pipeVars>>

SpecBuddyCalls == InitBuddy /\ [][NextBuddyCalls]_vars

\* C13: buddy_alloc(b, order) returns null exactly when order < MIN_ORDER,
\* order > max_order, or every free list from the order asked for up to
\* max_order is empty, and then leaves every free list as it was; a disabled
\* allocator (max_order = MIN_ORDER - 1) returns null for every order.
BuddyAllocNull ==
    last.op = "buddy_alloc" =>
        LET o == last.order
            pre == last.pre
            refused == \/ o < MIN_ORDER
                       \/ o > pre.max_order
                       \/ \A k \in o..pre.max_order : pre.free[idx(k)] = <<>>
        IN  /\ (b_ret = NULL) <=> refused
            /\ b_ret = NULL => b.free = pre.free
            /\ pre.max_order = MIN_ORDER - 1 => b_ret = NULL

\* C13 witness: over a region of exactly one page the first buddy_alloc(b, 0)
\* took the page and the second one has just returned null
BuddyAllocNullWitness ==
    /\ last.op = "buddy_alloc"
    /\ last.order = MIN_ORDER
    /\ b.total_size \div BLOCK_SIZE = 1
    /\ BagCardinality(b_out) = 1
    /\ b_ret = NULL

\* C28: a buddy_alloc(b, order) that succeeds takes the head block B of the
\* lowest non-empty list of order o >= order and returns B; each list of
\* order k, order <= k < o, gets exactly one block, the upper half at
\* B + 2^k * PAGE_SIZE; the lists below the request and above o are left as
\* they were; the free pages drop by exactly 2^order
BuddyAllocSplit ==
    (last.op = "buddy_alloc" /\ b_ret # NULL) =>
        LET order == last.order
            pre == last.pre
            nonEmpty == {k \in order..pre.max_order : pre.free[idx(k)] # <<>>}
            o == CHOOSE k \in nonEmpty : \A j \in nonEmpty : k <= j
            B == Head(pre.free[idx(o)])
        IN  /\ b_ret = B
            /\ b.free[idx(o)] = Tail(pre.free[idx(o)])
            /\ \A k \in order..(o - 1) :
                  b.free[idx(k)] = <<B + (2 ^ k) * BLOCK_SIZE>>
            /\ \A k \in MIN_ORDER..MAX_ORDER :
                  (k < order \/ k > o) => b.free[idx(k)] = pre.free[idx(k)]
            /\ FreePages(b.free) = FreePages(pre.free) - 2 ^ order

\* C28 witness: an order-2 block was cut out of a block at least four times
\* its size while the lists of orders 0 and 1 held blocks
BuddyAllocSplitWitness ==
    /\ last.op = "buddy_alloc"
    /\ last.order = 2
    /\ b_ret # NULL
    /\ last.pre.free[idx(0)] # <<>>
    /\ last.pre.free[idx(1)] # <<>>
    /\ FirstFit(last.pre, 2) >= 4
    /\ b.free[idx(3)] # <<>>

\* ------------------------------------------------------------------------
\* Slab allocator: geometry
\* ------------------------------------------------------------------------
\* #define ALIGN8(x) (((x) + 7) & ~7UL)
ALIGN8(x) == ((x + 7) \div 8) * 8

\* (c->obj_per_slab + 7) / 8
BitmapBytes(n) == (n + 7) \div 8

RECURSIVE FitObjs(_, _, _)
\* while (n > 0) { if (overhead + n * obj_size <= total) break; n--; }
FitObjs(n, obj_size, total) ==
    IF n > 0 /\ ALIGN8(SLAB_T_SIZE + BitmapBytes(n)) + n * obj_size > total
    THEN FitObjs(n - 1, obj_size, total)
    ELSE n

\* the first estimate, with no room taken for the bitmap
compute_obj_per_slab_naive(obj_size, order) ==
    (BLOCK_SIZE * (2 ^ order) - ALIGN8(SLAB_T_SIZE)) \div obj_size

compute_obj_per_slab(obj_size, order) ==
    LET total == BLOCK_SIZE * (2 ^ order)
        hdr == ALIGN8(SLAB_T_SIZE)
    IN  FitObjs((total - hdr) \div obj_size, obj_size, total)

RECURSIVE FirstOrderWith(_, _, _, _)
\* for (order = from; order <= upto; order++) if (n >= atleast) return order;
FirstOrderWith(obj_size, order, upto, atleast) ==
    IF order > upto THEN -1
    ELSE IF compute_obj_per_slab(obj_size, order) >= atleast THEN order
    ELSE FirstOrderWith(obj_size, order + 1, upto, atleast)

choose_slab_order(obj_size) ==
    LET good == FirstOrderWith(obj_size, 0, 10, MIN_OBJS_PER_SLAB)
        fallback == FirstOrderWith(obj_size, 0, 14, 1)
    IN  IF good >= 0 THEN good
        ELSE IF fallback >= 0 THEN fallback
        ELSE 0

\* static void *slab_obj_start(slab_t *slab), for a slab whose cache field is c
slab_obj_start(slab, c) ==
    ALIGN8(slab + SLAB_T_SIZE + BitmapBytes(caches[c].obj_per_slab))

\* slab_addr = (uint64)objp & ~(slab_size - 1)
obj_to_slab(c, objp) ==
    LET slab_size == BLOCK_SIZE * (2 ^ caches[c].slab_order)
    IN  objp - (objp % slab_size)

\* ------------------------------------------------------------------------
\* Slab allocator: memory shared with the buddy
\* ------------------------------------------------------------------------
\* the node after x on the free list it is on (NULL when x is on none)
RECURSIVE NextOnList(_, _)
NextOnList(list, x) ==
    IF list = <<>> THEN NULL
    ELSE IF Head(list) = x
         THEN (IF Len(list) > 1 THEN list[2] ELSE NULL)
         ELSE NextOnList(Tail(list), x)

OnFreeList(bb, x) == \E o \in MIN_ORDER..MAX_ORDER : x \in Range(bb.free[idx(o)])

FreeListOf(bb, x) ==
    bb.free[idx(CHOOSE o \in MIN_ORDER..MAX_ORDER : x \in Range(bb.free[idx(o)]))]

\* A free block's first word is its bl->next (buddy.c:85, 123, 165, 174), the
\* same word as slab_t.cache: every header that is a free-list node now reads
\* as the address of the node after it.
Threaded(sl, bb) ==
    [x \in DOMAIN sl |->
        IF OnFreeList(bb, x)
        THEN [sl[x] EXCEPT !.cache = NextOnList(FreeListOf(bb, x), x)]
        ELSE sl[x]]

\* what slab->cache reads at address x.  Where no slab header was ever
\* written the word is object data, a page never used or a word left from
\* an earlier use of the page: what a client wrote there if a client wrote
\* the object around it, and else taken not to be the address of a cache.
CacheWordAt(x) ==
    LET live == x \in DOMAIN slabs /\ slabs[x].live
        over == {a \in DOMAIN objmem : /\ objmem[a].pat = "client"
                                       /\ a <= x
                                       /\ x + 8 <= a + objmem[a].len}
    IN  IF ~live /\ over # {} THEN objmem[CHOOSE a \in over : TRUE].word
        ELSE IF x \in DOMAIN slabs THEN slabs[x].cache
        ELSE IF OnFreeList(b, x) THEN NextOnList(FreeListOf(b, x), x)
        ELSE NULL

\* ------------------------------------------------------------------------
\* Slab allocator: boot and cache creation
\* ------------------------------------------------------------------------
\* kernel.ld: end, the first address after the kernel image (any address)
KernelEnds == {33 * BLOCK_SIZE - 200}

\* sysslab.c: SLAB_TEST_START = PHYSTOP - SLAB_TEST_SIZE
SLAB_TEST_START == PHYSTOP - SLAB_TEST_BLOCKS * BLOCK_SIZE

\* sizes given to kmem_cache_create: 4 objects per one-page slab, 2 objects
\* and 1 object per 1024-page slab
CacheSizes == {1000, 2097128, 3 * 1024 * 1024}

InitSlab ==
    /\ phase = "boot"
    /\ b = BuddyZero
    /\ b_out = EmptyBag
    /\ b_init = EmptyFree
    /\ b_ret = NULL
    /\ mode \in {"kernel", "private"}
    /\ SlabZero
    /\ CallZero

\* kalloc.c kinit() under SLAB_KERNEL: buddy_init over [PGROUNDUP(end), PHYSTOP)
\* and kmem_init(0, 0)
KInit ==
    /\ phase = "boot"
    /\ mode = "kernel"
    /\ \E end \in KernelEnds :
          LET nb == buddy_init(b, PGROUNDUP(end), PHYSTOP)
          IN  b' = nb /\ b_init' = nb.free
    /\ registry' = NULL
    /\ phase' = "run"
    /\ UNCHANGED <<b_out, b_ret, mode, caches, slabs, held, pc, loc>>

\* sys_kmem_init() without SLAB_KERNEL: kmem_init(SLAB_TEST_START, SLAB_TEST_BLOCKS)
SysKmemInit ==
    /\ phase = "boot"
    /\ mode = "private"
    /\ LET space == SLAB_TEST_START
           mem_end == space + SLAB_TEST_BLOCKS * BLOCK_SIZE
           nb == buddy_init(b, space, mem_end)
       IN  b' = nb /\ b_init' = nb.free
    /\ registry' = NULL
    /\ phase' = "run"
    /\ UNCHANGED <<b_out, b_ret, mode, caches, slabs, held, pc, loc>>

\* the descriptor kmem_cache_create fills in at address cache
NewCache(aligned_size, ctor) ==
    LET order == choose_slab_order(aligned_size)
        n == compute_obj_per_slab(aligned_size, order)
        slab_bytes == BLOCK_SIZE * (2 ^ order)
        overhead == ALIGN8(SLAB_T_SIZE + BitmapBytes(n))
        waste == slab_bytes - (overhead + n * aligned_size)
    IN  [obj_size |-> aligned_size, ctor |-> ctor,
         partial_slabs |-> NULL, full_slabs |-> NULL, free_slabs |-> NULL,
         obj_per_slab |-> n, slab_order |-> order,
         slab_count |-> 0, total_objs |-> 0, free_objs |-> 0,
         grown_since_shrink |-> 0, error |-> 0,
         color_max |-> IF waste \div 8 < 0 THEN 0 ELSE waste \div 8,
         color_next |-> 0,
         alloc_count |-> 0, free_count_total |-> 0,
         next |-> registry, lock |-> 0]

\* memset(cache, 0, sizeof(*cache)) and the name: whatever slab header the
\* page held before is gone, its first word is now text and no cache address
Overwritten(sl, cache) == [x \in DOMAIN sl \ {cache} |-> sl[x]]

\* a create that kept the descriptor page when no object fits
DescriptorKept(bb, cache) == bb

\* slab.c:255-262: the descriptor page goes back to the buddy
DescriptorReturned(bb, cache) == buddy_free(bb, cache, 0)

\* kmem_cache_create(name, size, ctor, 0), slab.c:226-292
CreateCache(size, ctor) ==
    /\ phase = "run"
    /\ mode # "buddy"
    /\ LET r == buddy_alloc(b, 0)
           cache == r.ret
           nc == NewCache(ALIGN8(size), ctor)
       IN  IF size = 0 THEN UNCHANGED <<b, b_out, b_ret, caches, registry, slabs>>
           ELSE IF cache = NULL
           THEN /\ b_ret' = NULL
                /\ UNCHANGED <<b, b_out, caches, registry, slabs>>
           ELSE IF nc.obj_per_slab <= 0
           THEN /\ b' = DescriptorReturned(r.b, cache)
                /\ b_ret' = cache
                /\ slabs' = Threaded(Overwritten(slabs, cache), b')
                /\ UNCHANGED <<b_out, caches, registry>>
           ELSE /\ b' = r.b
                /\ b_ret' = cache
                /\ b_out' = b_out (+) SetToBag({<<cache, 0>>})
                /\ caches' = (cache :> nc) @@ caches
                /\ registry' = cache
                /\ slabs' = Threaded(Overwritten(slabs, cache), b')
    /\ UNCHANGED <<phase, b_init, mode, held>>

\* kmem_cache_create called and returned in one step of its caller
CacheCreateWith(size, ctor) ==
    /\ CreateCache(size, ctor)
    /\ UNCHANGED <<pc, loc>>

\* kmem_cache_create by a client, without constructor
CacheCreate ==
    /\ Cardinality(DOMAIN caches) < MaxCaches
    /\ \E size \in CacheSizes : CacheCreateWith(size, FALSE)

\* ------------------------------------------------------------------------
\* Slab allocator: locks and lists
\* ------------------------------------------------------------------------
\* a spinlock anyone may take at any time
CanAcquireAlways(c) == TRUE
\* acquire(&cachep->lock) returns once no thread holds the lock
CanAcquire(c) == caches[c].lock = 0

Min(S) == CHOOSE x \in S : \A y \in S : x <= y

\* "Find next free slot: scan bitmap from i+1", then from 0 up to i
NextFreeAfter(bitmap, i, n) ==
    LET up == {j \in (i + 1)..(n - 1) : j \notin bitmap}
        down == {j \in 0..(i - 1) : j \notin bitmap}
    IN  IF up # {} THEN Min(up)
        ELSE IF down # {} THEN Min(down)
        ELSE -1

RECURSIVE FindPred(_, _, _, _)
\* while (*pp && *pp != slab) pp = &(*pp)->next;  started with *pp = cur's
\* successor.  The node whose next is slab; NULL when the walk reaches the
\* end of the list; -1 when it runs round a cycle for ever.
FindPred(sl, cur, slab, seen) ==
    IF sl[cur].next = slab THEN cur
    ELSE IF sl[cur].next = NULL THEN NULL
    ELSE IF sl[cur].next \in seen THEN -1
    ELSE FindPred(sl, sl[cur].next, slab, seen \cup {cur})

\* the list head and the headers after unlinking slab from the list at head
\* (hang: the walk does not end)
Unlink(sl, head, slab) ==
    IF head = NULL THEN [hang |-> FALSE, head |-> head, sl |-> sl]
    ELSE IF head = slab THEN [hang |-> FALSE, head |-> sl[slab].next, sl |-> sl]
    ELSE LET q == FindPred(sl, head, slab, {})
         IN  IF q = -1 THEN [hang |-> TRUE, head |-> head, sl |-> sl]
             ELSE IF q = NULL THEN [hang |-> FALSE, head |-> head, sl |-> sl]
             ELSE [hang |-> FALSE, head |-> head,
                   sl |-> [sl EXCEPT ![q].next = sl[slab].next]]

\* number of kmem_cache_alloc calls that have taken or are taking an object
TotalAllocs ==
    LET RECURSIVE Sum(_)
        Sum(S) == IF S = {} THEN 0
                  ELSE LET c == CHOOSE x \in S : TRUE
                       IN  caches[c].alloc_count + Sum(S \ {c})
    IN  Sum(DOMAIN caches) + Cardinality({t \in Threads : pc[t] = "alloc"})

\* ------------------------------------------------------------------------
\* kmem_cache_alloc
\* ------------------------------------------------------------------------
\* the header alloc_slab writes at region
NewSlab(c, region) ==
    [cache |-> c, free_count |-> caches[c].obj_per_slab,
     order |-> caches[c].slab_order, next_free |-> 0, next |-> NULL,
     bitmap |-> {}, live |-> TRUE]

\* slab.c:329-335: read next_free; leave with error 2 or go on holding the lock
AllocPick(t, c, slab, cs, sl) ==
    LET i == sl[slab].next_free
    IN  IF i < 0 \/ i >= cs[c].obj_per_slab
        THEN /\ caches' = [cs EXCEPT ![c].error = 2, ![c].lock = 0]
             /\ slabs' = sl
             /\ pc' = [pc EXCEPT ![t] = "idle"]
             /\ loc' = [loc EXCEPT ![t] = NoLocals]
        ELSE /\ caches' = [cs EXCEPT ![c].lock = t]
             /\ slabs' = sl
             /\ pc' = [pc EXCEPT ![t] = "alloc"]
             /\ loc' = [loc EXCEPT ![t] = [cache |-> c, slab |-> slab, i |-> i,
                                           obj |-> NULL]]

\* slab.c:321-326: alloc_slab returned null: record error 1 and release the
\* lock; a variant that counted the attempt as an allocation
OutOfMemoryCounted(c) ==
    [caches EXCEPT ![c].error = 1, ![c].lock = 0, ![c].alloc_count = @ + 1]

OutOfMemory(c) == [caches EXCEPT ![c].error = 1, ![c].lock = 0]

\* an alloc that never looks at the free list
FreeSlabIgnored(C) == FALSE
\* slab.c:313-319: slab = cachep->free_slabs; if (slab) ...
FreeSlabReady(C) == C.free_slabs # NULL

\* kmem_cache_alloc, slab.c:303-335: take the lock and choose the slab; the
\* call returns at once when there is no memory or the hint is out of range
AllocEnter(t, c) ==
    /\ phase = "run"
    /\ CanAcquire(c)
    /\ TotalAllocs < MaxAllocs
    /\ LET C == caches[c]
       IN  IF C.partial_slabs # NULL
           THEN /\ AllocPick(t, c, C.partial_slabs, caches, slabs)
                /\ UNCHANGED buddyVars
           ELSE IF FreeSlabReady(C)
           THEN LET slab == C.free_slabs
                IN  /\ AllocPick(t, c, slab,
                          [caches EXCEPT ![c].free_slabs = slabs[slab].next,
                                         ![c].partial_slabs = slab],
                          [slabs EXCEPT ![slab].next = C.partial_slabs])
                    /\ UNCHANGED buddyVars
           ELSE LET r == buddy_alloc(b, C.slab_order)
                    region == r.ret
                IN  IF region = NULL
                    THEN /\ caches' = OutOfMemory(c)
                         /\ b_ret' = NULL
                         /\ pc' = [pc EXCEPT ![t] = "idle"]
                         /\ loc' = [loc EXCEPT ![t] = NoLocals]
                         /\ UNCHANGED <<b, b_out, b_init, slabs>>
                    ELSE /\ b' = r.b
                         /\ b_ret' = region
                         /\ b_out' = b_out (+) SetToBag({<<region, C.slab_order>>})
                         /\ UNCHANGED b_init
                         /\ AllocPick(t, c, region,
                               [caches EXCEPT
                                  ![c].slab_count = @ + 1,
                                  ![c].total_objs = @ + C.obj_per_slab,
                                  ![c].free_objs = @ + C.obj_per_slab,
                                  ![c].grown_since_shrink = 1,
                                  ![c].partial_slabs = region],
                               Threaded(
                                  [x \in DOMAIN slabs \cup {region} |->
                                     IF x = region
                                     THEN [NewSlab(c, region) EXCEPT
                                              !.next = C.partial_slabs]
                                     ELSE slabs[x]], r.b))
    /\ UNCHANGED <<phase, mode, registry, held>>

\* kmem_cache_alloc(c) called by a thread that is outside the allocator
AllocBegin(t, c) ==
    /\ pc[t] = "idle"
    /\ AllocEnter(t, c)

\* kmem_cache_alloc, slab.c:337-376: mark the slot, refresh next_free, move a
\* full slab to the full list, release the lock and return the object
AllocEnd(t) ==
    /\ pc[t] = "alloc"
    /\ LET c == loc[t].cache
           slab == loc[t].slab
           i == loc[t].i
           C == caches[c]
           obj == slab_obj_start(slab, c) + i * C.obj_size
           bm == slabs[slab].bitmap \cup {i}
           fc == slabs[slab].free_count - 1
           sl1 == [slabs EXCEPT ![slab].bitmap = bm,
                                ![slab].free_count = fc,
                                ![slab].next_free = NextFreeAfter(bm, i, C.obj_per_slab)]
           c1 == [caches EXCEPT ![c].free_objs = @ - 1,
                                ![c].alloc_count = @ + 1,
                                ![c].lock = 0]
       IN  /\ IF fc = 0
              THEN /\ caches' = [c1 EXCEPT ![c].partial_slabs = sl1[slab].next,
                                           ![c].full_slabs = slab]
                   /\ slabs' = [sl1 EXCEPT ![slab].next = C.full_slabs]
              ELSE /\ caches' = c1
                   /\ slabs' = sl1
           /\ held' = held (+) SetToBag({[obj |-> obj, cache |-> c,
                                          slab |-> slab, i |-> i]})
    /\ pc' = [pc EXCEPT ![t] = "idle"]
    /\ loc' = [loc EXCEPT ![t] = NoLocals]
    /\ UNCHANGED <<phase, mode, registry>>
    /\ UNCHANGED buddyVars

\* ------------------------------------------------------------------------
\* kmem_cache_free
\* ------------------------------------------------------------------------
\* slab.c:404-406, 413-415: a rejected free records the code and releases
\* the lock; a variant that also counted the object as freed
RejectedCounting(c, code) ==
    [caches EXCEPT ![c].error = code, ![c].lock = 0, ![c].free_objs = @ + 1]

Rejected(c, code) == [caches EXCEPT ![c].error = code, ![c].lock = 0]

RECURSIVE QuotientDigits(_, _, _)
\* long division of 2^64 - below by obj_size, for 0 < below <= 2^28 and
\* obj_size < 2^27, one hexadecimal digit of the dividend at a time from
\* digit 15 down (2^64 - below has every digit d of below - 1 turned into
\* 15 - d): the remainder, and the low 32 bits of the quotient read as a
\* signed int, after the digits 15..k
QuotientDigits(k, below, obj_size) ==
    IF k > 15 THEN [rem |-> 0, q |-> 0]
    ELSE LET prev == QuotientDigits(k + 1, below, obj_size)
             digit == IF k >= 7 THEN 15 ELSE 15 - (((below - 1) \div (16 ^ k)) % 16)
             r == 16 * prev.rem + digit
             d == r \div obj_size
             part == IF k > 7 THEN 0
                     ELSE IF k = 7 THEN (IF d >= 8 THEN d - 16 ELSE d) * (16 ^ 7)
                     ELSE d * (16 ^ k)
         IN  [rem |-> r % obj_size, q |-> prev.q + part]

\* (int)(((uint64)objp - (uint64)obj_base) / obj_size) for objp below
\* obj_base by `below` bytes: the subtraction wraps round 2^64
WrappedQuotient(below, obj_size) == QuotientDigits(0, below, obj_size).q

\* an index computed by plain division whatever the pointer
\* slab.c:410: int idx = (int)(((uint64)objp - (uint64)obj_base) / cachep->obj_size)
SlotIndex(objp, obj_base, obj_size) ==
    IF objp >= obj_base THEN (objp - obj_base) \div obj_size
    ELSE WrappedQuotient(obj_base - objp, obj_size)

\* the records of the clients that hold p as an object of cache c
Holding(c, objp) == {h \in BagToSet(held) : h.cache = c /\ h.obj = objp}

\* kmem_cache_free(c, p), slab.c:392-416, for any cache and any pointer: take
\* the lock, find the slab by masking, validate; a rejected free returns at
\* once, and a client that passed its object to the object's own cache has
\* let go of it.  Where the word read as slab->cache is client data and no
\* header, slab->bitmap and slab->free_count are client data too: the bit
\* test may fail (error 4) or the call goes on to write through them ("wild").
FreeCall(t, c, objp) ==
    /\ phase = "run"
    /\ pc[t] = "idle"
    /\ c \in DOMAIN caches
    /\ objp # NULL
    /\ CanAcquire(c)
    /\ LET slab == obj_to_slab(c, objp)
       IN  IF CacheWordAt(slab) # c
           THEN /\ caches' = Rejected(c, 3)
                /\ held' = held (-) SetToBag(Holding(c, objp))
                /\ UNCHANGED <<pc, loc>>
           ELSE IF slab \notin DOMAIN slabs
           THEN \/ /\ caches' = Rejected(c, 4)
                   /\ held' = held (-) SetToBag(Holding(c, objp))
                   /\ UNCHANGED <<pc, loc>>
                \/ /\ caches' = [caches EXCEPT ![c].lock = t]
                   /\ pc' = [pc EXCEPT ![t] = "wild"]
                   /\ UNCHANGED <<held, loc>>
           ELSE LET obj_base == slab_obj_start(slab, c)
                    i == SlotIndex(objp, obj_base, caches[c].obj_size)
                IN  IF i < 0 \/ i >= caches[c].obj_per_slab
                       \/ i \notin slabs[slab].bitmap
                    THEN /\ caches' = Rejected(c, 4)
                         /\ held' = held (-) SetToBag(Holding(c, objp))
                         /\ UNCHANGED <<pc, loc>>
                    ELSE /\ caches' = [caches EXCEPT ![c].lock = t]
                         /\ pc' = [pc EXCEPT ![t] = "free"]
                         /\ loc' = [loc EXCEPT ![t] = [cache |-> c, slab |-> slab,
                                                       i |-> i, obj |-> objp]]
                         /\ UNCHANGED held
    /\ UNCHANGED <<phase, mode, registry, slabs>>
    /\ UNCHANGED buddyVars

\* kmem_cache_free(c, p) by a client for an object p that kmem_cache_alloc(c)
\* returned to it and that it still holds
FreeBegin(t, h) ==
    /\ h \in BagToSet(held)
    /\ \A u \in Threads : ~(pc[u] = "free" /\ loc[u].obj = h.obj)
    /\ FreeCall(t, h.cache, h.obj)

\* slab.c:435-445: "Slab is completely empty": unlink it from the partial
\* list and push it on the free list
RelistEmpty(sl, C, slab, was_full) ==
    LET u == Unlink(sl, C.partial_slabs, slab)
    IN  [hang |-> u.hang,
         partial |-> u.head,
         full |-> C.full_slabs,
         free |-> slab,
         sl |-> [u.sl EXCEPT ![slab].next = C.free_slabs]]

\* slab.c:446-456: "Was full, now partial": unlink from the full list and
\* push on the partial list
RelistPartial(sl, C, slab) ==
    LET u == Unlink(sl, C.full_slabs, slab)
    IN  [hang |-> u.hang,
         partial |-> slab,
         full |-> u.head,
         free |-> C.free_slabs,
         sl |-> [u.sl EXCEPT ![slab].next = C.partial_slabs]]

\* a hint that is only set when the slab had no free slot
HintIfNone(next_free, i) == IF next_free < 0 THEN i ELSE next_free
\* slab.c:427-429: if (slab->next_free < 0 || idx < slab->next_free)
\*                     slab->next_free = idx;
HintAfterFree(next_free, i) ==
    IF next_free < 0 \/ i < next_free THEN i ELSE next_free

\* kmem_cache_free, slab.c:418-458: clear the bit, count, lower next_free,
\* relist the slab, release the lock
FreeEnd(t) ==
    /\ pc[t] = "free"
    /\ LET c == loc[t].cache
           slab == loc[t].slab
           i == loc[t].i
           C == caches[c]
           S == slabs[slab]
           was_full == (S.free_count = 0)
           fc == S.free_count + 1
           sl1 == [slabs EXCEPT
                     ![slab].bitmap = @ \ {i},
                     ![slab].free_count = fc,
                     ![slab].next_free = HintAfterFree(S.next_free, i)]
           r == IF fc = C.obj_per_slab THEN RelistEmpty(sl1, C, slab, was_full)
                ELSE IF was_full THEN RelistPartial(sl1, C, slab)
                ELSE [hang |-> FALSE, partial |-> C.partial_slabs,
                      full |-> C.full_slabs, free |-> C.free_slabs, sl |-> sl1]
       IN  IF r.hang
           THEN /\ pc' = [pc EXCEPT ![t] = "hang"]
                /\ caches' = [caches EXCEPT ![c].free_objs = @ + 1,
                                            ![c].free_count_total = @ + 1]
                /\ slabs' = sl1
                /\ UNCHANGED <<held, loc>>
           ELSE /\ caches' = [caches EXCEPT
                                ![c].free_objs = @ + 1,
                                ![c].free_count_total = @ + 1,
                                ![c].partial_slabs = r.partial,
                                ![c].full_slabs = r.full,
                                ![c].free_slabs = r.free,
                                ![c].lock = 0]
                /\ slabs' = r.sl
                /\ held' = held (-) SetToBag({[obj |-> loc[t].obj, cache |-> c,
                                               slab |-> slab, i |-> i]})
                /\ pc' = [pc EXCEPT ![t] = "idle"]
                /\ loc' = [loc EXCEPT ![t] = NoLocals]
    /\ UNCHANGED <<phase, mode, registry>>
    /\ UNCHANGED buddyVars

\* ------------------------------------------------------------------------
\* kmem_cache_shrink
\* ------------------------------------------------------------------------
RECURSIVE ShrinkLoop(_, _, _)
\* while (cachep->free_slabs) { unlink the head; free_empty_slab(); }
\* w: the cache c, the headers, the buddy, the blocks held, the pages freed
ShrinkLoop(c, w, seen) ==
    LET slab == w.C.free_slabs
        S == w.sl[slab]
        nb == buddy_free(w.b, slab, S.order)
    IN  IF slab = NULL THEN w
        ELSE IF slab \in seen THEN [w EXCEPT !.hang = TRUE]
        ELSE ShrinkLoop(c,
               [hang |-> FALSE,
                C |-> [w.C EXCEPT !.free_slabs = S.next,
                                  !.slab_count = @ - 1,
                                  !.total_objs = @ - w.C.obj_per_slab,
                                  !.free_objs = @ - S.free_count],
                sl |-> Threaded([w.sl EXCEPT ![slab].live = FALSE], nb),
                b |-> nb,
                out |-> w.out (-) SetToBag({<<slab, S.order>>}),
                freed |-> w.freed + 2 ^ S.order],
               seen \cup {slab})

\* a shrink that took no notice of the cache having grown
GatedNever(C) == FALSE

\* slab.c:473: "Only shrink if cache has NOT grown since last shrink"
Gated(C) == C.grown_since_shrink # 0

\* the loop of slab.c:481-486 run from the current state
ShrunkFrom(c) ==
    ShrinkLoop(c, [hang |-> FALSE, C |-> caches[c], sl |-> slabs,
                   b |-> b, out |-> b_out, freed |-> 0], {})

\* a loop that released the slabs and left free_slabs pointing at them
ShrunkKeeping(c) ==
    [ShrunkFrom(c) EXCEPT !.C.free_slabs = caches[c].free_slabs]

Shrunk(c) == ShrunkFrom(c)

\* kmem_cache_shrink(c), slab.c:465-490, under the cache lock throughout
CacheShrink(t, c) ==
    /\ phase = "run"
    /\ pc[t] = "idle"
    /\ CanAcquire(c)
    /\ IF Gated(caches[c])
       THEN /\ caches' = [caches EXCEPT ![c].grown_since_shrink = 0]
            /\ UNCHANGED <<slabs, b, b_out, pc>>
       ELSE LET w == Shrunk(c)
            IN  /\ caches' = [caches EXCEPT ![c] = [w.C EXCEPT !.lock =
                                                      IF w.hang THEN t ELSE 0]]
                /\ slabs' = w.sl
                /\ b' = w.b
                /\ b_out' = w.out
                /\ pc' = IF w.hang THEN [pc EXCEPT ![t] = "hang"] ELSE pc
    /\ UNCHANGED <<phase, mode, registry, held, loc, b_init, b_ret>>

\* ------------------------------------------------------------------------
\* The slab allocator under concurrent clients
\* ------------------------------------------------------------------------
Next ==
    \/ KInit /\ UNCHANGED callVars
    \/ SysKmemInit /\ UNCHANGED callVars
    \/ CacheCreate /\ UNCHANGED callVars
    \/ \E t \in Threads, c \in DOMAIN caches : AllocBegin(t, c) /\ UNCHANGED callVars
    \/ \E t \in Threads : AllocEnd(t) /\ UNCHANGED callVars
    \/ \E t \in Threads, h \in BagToSet(held) : FreeBegin(t, h) /\ UNCHANGED callVars
    \/ \E t \in Threads : FreeEnd(t) /\ UNCHANGED callVars
    \/ \E t \in Threads, c \in DOMAIN caches : CacheShrink(t, c) /\ UNCHANGED callVars

Spec == InitSlab /\ [][Next]_vars

\* ------------------------------------------------------------------------
\* Properties of the slab allocator
\* ------------------------------------------------------------------------
RECURSIVE ListFrom(_, _)
\* the slabs reached from a list head by following next
ListFrom(head, seen) ==
    IF head = NULL \/ head \in seen THEN seen
    ELSE ListFrom(slabs[head].next, seen \cup {head})

OnPartial(c) == ListFrom(caches[c].partial_slabs, {})
OnFull(c) == ListFrom(caches[c].full_slabs, {})
OnFree(c) == ListFrom(caches[c].free_slabs, {})

\* the slabs of cache c: created by alloc_slab and not given back to the buddy
SlabsOf(c) == {x \in DOMAIN slabs : slabs[x].live /\ slabs[x].cache = c}

\* no operation is inside cache c
Quiescent(c) == caches[c].lock = 0 /\ \A t \in Threads : pc[t] = "idle"

RECURSIVE SumFreeCount(_)
SumFreeCount(S) ==
    IF S = {} THEN 0
    ELSE LET x == CHOOSE y \in S : TRUE
         IN  slabs[x].free_count + SumFreeCount(S \ {x})

\* C5: under every interleaving of the threads' kmem_cache_alloc and
\* kmem_cache_free calls on a cache, no object is held twice, the objects
\* held occupy disjoint slots, and at most one thread at a time is between
\* the acquire and the release of the cache's lock (the calls take effect
\* one after another).
NoDoubleAllocation ==
    /\ \A h \in BagToSet(held) :
          /\ CopiesIn(h, held) = 1
          /\ \A g \in BagToSet(held) :
                g # h => \/ h.obj + caches[h.cache].obj_size <= g.obj
                         \/ g.obj + caches[g.cache].obj_size <= h.obj
    /\ \A c \in DOMAIN caches :
          Cardinality({t \in Threads : pc[t] # "idle" /\ loc[t].cache = c}) <= 1

\* C5 witness: a thread is inside kmem_cache_alloc about to hand out a slot
\* that was held and freed before, while a later slot of the same slab is
\* still held
NoDoubleAllocationWitness ==
    \E t \in Threads :
        /\ pc[t] = "alloc"
        /\ caches[loc[t].cache].free_count_total >= 1
        /\ \E h \in BagToSet(held) : h.slab = loc[t].slab /\ h.i > loc[t].i

\* C6: with no operation in progress, every slab of a cache is on exactly
\* one of the lists partial, full, free: on free iff free_count =
\* obj_per_slab, on full iff free_count = 0, on partial otherwise.
SlabListExclusivity ==
    \A c \in DOMAIN caches :
        Quiescent(c) =>
            \A x \in SlabsOf(c) :
                LET fc == slabs[x].free_count
                    n == caches[c].obj_per_slab
                IN  /\ (x \in OnFree(c)) <=> (fc = n)
                    /\ (x \in OnFull(c)) <=> (fc = 0)
                    /\ (x \in OnPartial(c)) <=> (fc # n /\ fc # 0)

\* C7: for every slab, bit i is set exactly when a client holds slot i, and
\* free_count = obj_per_slab - popcount(bitmap).
SlabBitmapAccounting ==
    \A c \in DOMAIN caches :
        \A x \in SlabsOf(c) :
            /\ \A i \in 0..(caches[c].obj_per_slab - 1) :
                  (i \in slabs[x].bitmap) <=>
                     (\E h \in BagToSet(held) : h.cache = c /\ h.slab = x /\ h.i = i)
            /\ slabs[x].free_count =
                  caches[c].obj_per_slab - Cardinality(slabs[x].bitmap)

\* C8: for every pointer p kmem_cache_alloc(C) returned, clearing the low
\* bits of p to a multiple of PAGE_SIZE * 2^slab_order gives the header of
\* the slab that owns p, and that header's cache field is C.
CacheIdentity ==
    \A h \in BagToSet(held) :
        /\ obj_to_slab(h.cache, h.obj) = h.slab
        /\ CacheWordAt(obj_to_slab(h.cache, h.obj)) = h.cache

\* C10: with no operation in progress, total_objs = slab_count *
\* obj_per_slab and free_objs is the sum of free_count over the slabs on the
\* cache's three lists.
CacheCounters ==
    \A c \in DOMAIN caches :
        Quiescent(c) =>
            /\ caches[c].total_objs = caches[c].slab_count * caches[c].obj_per_slab
            /\ caches[c].free_objs =
                  SumFreeCount(OnPartial(c) \cup OnFull(c) \cup OnFree(c))


\* ------------------------------------------------------------------------
\* One client, one call at a time, each call observed
\* ------------------------------------------------------------------------
\* the thread that makes the observed calls
Caller == 1

\* object sizes of the observed caches: four objects on a one-page slab, and
\* one object on an order-12 slab, of which the private region holds one
\* once a descriptor page is taken
CallSizes == {1000, 12 * 1024 * 1024}

\* the allocator as a call finds it
Pre == [caches |-> caches, slabs |-> slabs, b |-> b, out |-> b_out,
        registry |-> registry]

\* a step that is not observed
Quiet(A) == A /\ last' = NoCall /\ UNCHANGED <<small_buf_caches, objmem, pipeVars>>

\* the record of a call: what was called on which cache with which pointer,
\* the word the call reads as slab->cache, the state before, whether the
\* call has returned and what
Observed(op, c, objp, ret) ==
    [op |-> op, cache |-> c, obj |-> objp,
     word |-> IF objp = NULL THEN NULL ELSE CacheWordAt(obj_to_slab(c, objp)),
     pre |-> Pre, done |-> pc'[Caller] = "idle", ret |-> ret]

\* addresses in the slab at x of cache c: the slot starts, and the address
\* one slot past the last
SlotAddrs(c, x) ==
    {slab_obj_start(x, c) + i * caches[c].obj_size : i \in 0..caches[c].obj_per_slab}

\* the pointers passed to kmem_cache_free, to any cache: slots, allocated or
\* not, of the slabs of every cache
FreePointers ==
    UNION {SlotAddrs(slabs[x].cache, x) :
              x \in {y \in DOMAIN slabs : slabs[y].cache \in DOMAIN caches}}

\* the sizes of which the client has no cache yet
Uncreated == {size \in CallSizes :
                 \A c \in DOMAIN caches : caches[c].obj_size # ALIGN8(size)}

\* the client creates one cache of each size, the smaller first
CallCreate ==
    /\ pc[Caller] = "idle"
    /\ Uncreated # {}
    /\ CacheCreateWith(Min(Uncreated), FALSE)

CallAlloc ==
    \E c \in DOMAIN caches :
        /\ AllocBegin(Caller, c)
        /\ last' = Observed("alloc", c, NULL, NULL)
        /\ UNCHANGED <<small_buf_caches, objmem, pipeVars>>

ReturnAlloc ==
    /\ AllocEnd(Caller)
    /\ last' = [last EXCEPT !.done = TRUE,
                            !.ret = slab_obj_start(loc[Caller].slab, loc[Caller].cache)
                                    + loc[Caller].i * caches[loc[Caller].cache].obj_size]
    /\ UNCHANGED <<small_buf_caches, objmem, pipeVars>>

CallFree ==
    \E c \in DOMAIN caches, objp \in FreePointers :
        /\ FreeCall(Caller, c, objp)
        /\ last' = Observed("free", c, objp, NULL)
        /\ UNCHANGED <<small_buf_caches, objmem, pipeVars>>

ReturnFree ==
    /\ FreeEnd(Caller)
    /\ last' = [last EXCEPT !.done = pc'[Caller] = "idle"]
    /\ UNCHANGED <<small_buf_caches, objmem, pipeVars>>

NextCalls ==
    \/ Quiet(KInit)
    \/ Quiet(SysKmemInit)
    \/ Quiet(CallCreate)
    \/ CallAlloc
    \/ ReturnAlloc
    \/ CallFree
    \/ ReturnFree

SpecCalls == InitSlab /\ [][NextCalls]_vars

\* C11: a kmem_cache_free that finds the masked address not to carry the
\* cache (error 3), or the slot index out of range or its bit clear (error
\* 4), records that code and changes nothing else: every bitmap, free_count,
\* next_free hint, list and counter, and the buddy, are as before the call
FreeFaultNoOp ==
    (last.op = "free" /\ last.done) =>
        LET c == last.cache
            p == last.obj
            pre == last.pre
            slab == obj_to_slab(c, p)
            wrong == last.word # c
            i == (p - slab_obj_start(slab, c)) \div caches[c].obj_size
            bad == /\ ~wrong
                   /\ slab \in DOMAIN pre.slabs
                   /\ \/ i < 0
                      \/ i >= caches[c].obj_per_slab
                      \/ i \notin pre.slabs[slab].bitmap
            same == /\ slabs = pre.slabs
                    /\ b = pre.b
                    /\ registry = pre.registry
                    /\ caches = [pre.caches EXCEPT ![c].error = caches[c].error]
        IN  /\ wrong => caches[c].error = 3 /\ same
            /\ bad => caches[c].error = 4 /\ same

\* a second free of an object whose slab still holds another one
FreeFaultNoOpWitness ==
    /\ last.op = "free" /\ last.done
    /\ caches[last.cache].error = 4
    /\ last.word = last.cache
    /\ LET slab == obj_to_slab(last.cache, last.obj)
       IN  /\ slabs[slab].bitmap # {}
           /\ last.obj \in SlotAddrs(last.cache, slab)
           /\ slabs[slab].free_count < caches[last.cache].obj_per_slab

\* C12: a kmem_cache_alloc that finds no partial and no free slab, while no
\* buddy list from the cache's slab order up holds a block, returns null
\* with error 1 and the lock released, and the lists, slab_count,
\* total_objs, free_objs, alloc_count and grown_since_shrink (and every slab
\* and the buddy) are as before the call
SlabOutOfMemory ==
    (last.op = "alloc" /\ last.done) =>
        LET c == last.cache
            pre == last.pre
            C == pre.caches[c]
            starved == /\ C.partial_slabs = NULL
                       /\ C.free_slabs = NULL
                       /\ \A k \in C.slab_order..pre.b.max_order :
                              pre.b.free[idx(k)] = <<>>
        IN  starved => /\ last.ret = NULL
                       /\ caches = [pre.caches EXCEPT ![c].error = 1]
                       /\ caches[c].lock = 0
                       /\ slabs = pre.slabs
                       /\ b = pre.b

\* the cache cannot grow past its one full slab
SlabOutOfMemoryWitness ==
    /\ last.op = "alloc" /\ last.done
    /\ last.ret = NULL
    /\ caches[last.cache].error = 1
    /\ last.pre.caches[last.cache].error = 0
    /\ caches[last.cache].full_slabs # NULL
    /\ caches[last.cache].alloc_count = 1

\* ------------------------------------------------------------------------
\* kmalloc / kfree
\* ------------------------------------------------------------------------
\* size_to_index with < for <=: a request of exactly a class size would go
\* to the next class
size_to_index_strict(size) ==
    LET fits == {i \in 0..(NUM_SMALL_BUF_SIZES - 1) :
                    size < 2 ^ (SMALL_BUF_MIN_ORDER + i)}
    IN  IF fits = {} THEN -1 ELSE Min(fits)

\* slab.c:598-605: the first class whose size is at least the request
size_to_index(size) ==
    LET fits == {i \in 0..(NUM_SMALL_BUF_SIZES - 1) :
                    size <= 2 ^ (SMALL_BUF_MIN_ORDER + i)}
    IN  IF fits = {} THEN -1 ELSE Min(fits)

\* requests: nothing, within and on the edge of the first class, just past
\* it, the largest class and one byte more
KmallocSizes == {0, 1, 20, 32, 33, 131072, 131073}

\* a kmalloc or kfree that has been called and has not returned
InFlight == last.op # "none" /\ ~last.done

\* kmalloc(size), slab.c:607-647, up to the point where it has created the
\* class cache or entered kmem_cache_alloc
KmallocCall(size) ==
    /\ phase = "run"
    /\ pc[Caller] = "idle"
    /\ ~InFlight
    /\ TotalAllocs < MaxAllocs
    /\ LET i == size_to_index(size)
           call == [op |-> "kmalloc", size |-> size, pre |-> Pre, ret |-> NULL]
       IN  IF size = 0 \/ i < 0
           THEN /\ last' = call @@ [cache |-> NULL, done |-> TRUE]
                /\ UNCHANGED <<small_buf_caches, objmem, pipeVars>>
                /\ UNCHANGED <<phase, buddyVars, slabVars>>
           ELSE IF small_buf_caches[i] = NULL
           THEN /\ CacheCreateWith(2 ^ (SMALL_BUF_MIN_ORDER + i), FALSE)
                /\ LET made == IF registry' # registry THEN registry' ELSE NULL
                   IN  /\ small_buf_caches' = [small_buf_caches EXCEPT ![i] = made]
                       /\ last' = call @@ [cache |-> made, done |-> made = NULL]
                /\ UNCHANGED <<objmem, pipeVars>>
           ELSE /\ AllocBegin(Caller, small_buf_caches[i])
                /\ last' = call @@ [cache |-> small_buf_caches[i],
                                    done |-> pc'[Caller] = "idle"]
                /\ UNCHANGED <<small_buf_caches, objmem, pipeVars>>

\* slab.c:647 after the cache was created: enter kmem_cache_alloc
KmallocAlloc ==
    /\ last.op = "kmalloc"
    /\ InFlight
    /\ pc[Caller] = "idle"
    /\ AllocBegin(Caller, last.cache)
    /\ last' = [last EXCEPT !.done = pc'[Caller] = "idle"]
    /\ UNCHANGED <<small_buf_caches, objmem, pipeVars>>

\* kmem_cache_alloc returns the object to kmalloc's caller
KmallocReturn ==
    /\ last.op = "kmalloc"
    /\ AllocEnd(Caller)
    /\ last' = [last EXCEPT !.done = TRUE,
                            !.ret = slab_obj_start(loc[Caller].slab, loc[Caller].cache)
                                    + loc[Caller].i * caches[loc[Caller].cache].obj_size]
    /\ UNCHANGED <<small_buf_caches, objmem, pipeVars>>

\* slab.c:659-672: the first class, in index order, whose cache exists and
\* is what the word at objp masked by that cache's slab size reads as
KfreeTarget(objp) ==
    LET m == {i \in 0..(NUM_SMALL_BUF_SIZES - 1) :
                 /\ small_buf_caches[i] # NULL
                 /\ CacheWordAt(obj_to_slab(small_buf_caches[i], objp))
                       = small_buf_caches[i]}
    IN  IF m = {} THEN NULL ELSE small_buf_caches[Min(m)]

\* kfree(p), slab.c:650-676, for an object the client got from kmalloc and
\* still holds, up to the point where kmem_cache_free has validated it
KfreeCall ==
    \E h \in BagToSet(held) :
        /\ phase = "run"
        /\ pc[Caller] = "idle"
        /\ ~InFlight
        /\ LET c == KfreeTarget(h.obj)
               call == [op |-> "kfree", obj |-> h.obj, owner |-> h.cache,
                        slab |-> h.slab, i |-> h.i, cache |-> c, pre |-> Pre]
           IN  IF c = NULL
               THEN /\ last' = call @@ [done |-> TRUE]
                    /\ UNCHANGED <<phase, buddyVars, slabVars>>
               ELSE /\ FreeCall(Caller, c, h.obj)
                    /\ last' = call @@ [done |-> pc'[Caller] = "idle"]
        /\ UNCHANGED <<small_buf_caches, objmem, pipeVars>>

\* kmem_cache_free finishes and kfree returns
KfreeReturn ==
    /\ last.op = "kfree"
    /\ FreeEnd(Caller)
    /\ last' = [last EXCEPT !.done = pc'[Caller] = "idle"]
    /\ UNCHANGED <<small_buf_caches, objmem, pipeVars>>

\* a client fills an object it holds with copies of one 8-byte word, here
\* the address of a cache.  Only objects that reach over a page boundary are
\* written: no word of a smaller object is ever read by the allocator.
ClientWrite ==
    \E h \in BagToSet(held), w \in DOMAIN caches :
        /\ pc[Caller] = "idle"
        /\ ~InFlight
        /\ caches[h.cache].obj_size >= BLOCK_SIZE
        /\ objmem' = [a \in DOMAIN objmem \cup {h.obj} |->
                        IF a = h.obj
                        THEN [pat |-> "client", word |-> w,
                              len |-> caches[h.cache].obj_size]
                        ELSE objmem[a]]
        /\ last' = NoCall
        /\ UNCHANGED <<small_buf_caches, pipeVars>>
        /\ UNCHANGED <<phase, buddyVars, slabVars>>

InitKmalloc == InitSlab /\ mode = "private"

NextKmalloc ==
    \/ Quiet(SysKmemInit)
    \/ \E size \in KmallocSizes : KmallocCall(size)
    \/ KmallocAlloc
    \/ KmallocReturn
    \/ KfreeCall
    \/ KfreeReturn
    \/ ClientWrite

SpecKmalloc == InitKmalloc /\ [][NextKmalloc]_vars

\* the class size the claim names for a request: the smallest 2^k >= size
\* with SMALL_BUF_MIN_ORDER <= k <= SMALL_BUF_MAX_ORDER
ClassSize(size) ==
    Min({2 ^ k : k \in {j \in SMALL_BUF_MIN_ORDER..SMALL_BUF_MAX_ORDER : 2 ^ j >= size}})

\* C14: kmalloc(size) for 1 <= size <= 2^17 allocates from the size-class
\* cache whose object size is the smallest power of two 2^k >= size with
\* 5 <= k <= 17; for size 0 and size > 2^17 it returns null and creates no
\* cache
KmallocSizeClass ==
    (last.op = "kmalloc" /\ last.done) =>
        /\ (last.size = 0 \/ last.size > 2 ^ SMALL_BUF_MAX_ORDER) =>
              /\ last.ret = NULL
              /\ caches = last.pre.caches
              /\ b = last.pre.b
        /\ (last.size >= 1 /\ last.size <= 2 ^ SMALL_BUF_MAX_ORDER
                /\ last.ret # NULL) =>
              \E h \in BagToSet(held) :
                  /\ h.obj = last.ret
                  /\ caches[h.cache].obj_size = ClassSize(last.size)
                  /\ h.i \in slabs[h.slab].bitmap
                  /\ \E k \in SMALL_BUF_MIN_ORDER..SMALL_BUF_MAX_ORDER :
                        /\ 2 ^ k = ClassSize(last.size)
                        /\ small_buf_caches[k - SMALL_BUF_MIN_ORDER] = h.cache

\* kmalloc(32) while the size-64 cache exists
KmallocSizeClassWitness ==
    /\ last.op = "kmalloc" /\ last.done
    /\ last.size = 32
    /\ last.ret # NULL
    /\ small_buf_caches[1] # NULL
    /\ small_buf_caches[0] \in DOMAIN last.pre.caches

\* C15: kfree(p) of an object p that kmalloc returned and that is still
\* allocated returns it to the cache kmalloc took it from (its bit is
\* cleared and that cache's free_objs rises by one) and changes no other
\* cache, whatever other class caches exist and whatever clients wrote
\* into their objects
KfreeDispatch ==
    (last.op = "kfree" /\ last.done) =>
        /\ last.i \notin slabs[last.slab].bitmap
        /\ caches[last.owner].free_objs = last.pre.caches[last.owner].free_objs + 1
        /\ \A c \in DOMAIN caches \ {last.owner} : caches[c] = last.pre.caches[c]

\* ------------------------------------------------------------------------
\* Caches with a constructor
\* ------------------------------------------------------------------------
\* object sizes of the constructed caches: four objects on a one-page slab
\* and four on a two-page slab
CtorSizes == {1000, 2000}

\* sysslab.c:52-67: the constructor is memset(p, mask, size); an object is
\* recorded as "ctor" while it holds that pattern, "raw" as build_free_list
\* left it and "client" once its holder has written other bytes over it
Filled(pat, c) == [pat |-> pat, word |-> NULL, len |-> caches[c].obj_size]

\* the slot starts of the slab at x of cache c
Slots(c, x) ==
    {slab_obj_start(x, c) + i * caches[c].obj_size : i \in 0..(caches[c].obj_per_slab - 1)}

\* slab.c:125-135: alloc_slab, when it ran, constructed every object of the
\* new slab
Constructed(c) ==
    IF caches'[c].slab_count = caches[c].slab_count + 1
    THEN LET new == Slots(c, caches'[c].partial_slabs)
         IN  [a \in DOMAIN objmem \cup new |->
                IF a \in new
                THEN Filled(IF caches[c].ctor THEN "ctor" ELSE "raw", c)
                ELSE objmem[a]]
    ELSE objmem

\* slab.c:431-433: kmem_cache_free runs the constructor on the freed object
Reconstructed(c, objp) ==
    IF caches[c].ctor
    THEN [a \in DOMAIN objmem \cup {objp} |->
            IF a = objp THEN Filled("ctor", c) ELSE objmem[a]]
    ELSE objmem

CtorCreate ==
    /\ Cardinality(DOMAIN caches) < MaxCaches
    /\ pc[Caller] = "idle"
    /\ \E size \in CtorSizes : CacheCreateWith(size, TRUE)
    /\ last' = NoCall
    /\ UNCHANGED <<small_buf_caches, objmem, pipeVars>>

CtorAlloc ==
    \E c \in DOMAIN caches :
        /\ AllocBegin(Caller, c)
        /\ last' = Observed("alloc", c, NULL, NULL)
        /\ objmem' = Constructed(c)
        /\ UNCHANGED <<small_buf_caches, pipeVars>>

CtorAllocReturn ==
    /\ last.op = "alloc"
    /\ AllocEnd(Caller)
    /\ last' = [last EXCEPT !.done = TRUE,
                            !.ret = slab_obj_start(loc[Caller].slab, loc[Caller].cache)
                                    + loc[Caller].i * caches[loc[Caller].cache].obj_size]
    /\ UNCHANGED <<small_buf_caches, objmem, pipeVars>>

\* the holder of an object overwrites the constructor's pattern
CtorScribble ==
    \E h \in BagToSet(held) :
        /\ pc[Caller] = "idle"
        /\ objmem[h.obj].pat # "client"
        /\ objmem' = [objmem EXCEPT ![h.obj] = Filled("client", h.cache)]
        /\ last' = NoCall
        /\ UNCHANGED <<small_buf_caches, pipeVars>>
        /\ UNCHANGED <<phase, buddyVars, slabVars>>

CtorFree ==
    \E h \in BagToSet(held) :
        /\ FreeBegin(Caller, h)
        /\ last' = Observed("free", h.cache, h.obj, NULL)
        /\ UNCHANGED <<small_buf_caches, objmem, pipeVars>>

CtorFreeReturn ==
    /\ last.op = "free"
    /\ FreeEnd(Caller)
    /\ last' = [last EXCEPT !.done = pc'[Caller] = "idle"]
    /\ objmem' = Reconstructed(loc[Caller].cache, loc[Caller].obj)
    /\ UNCHANGED <<small_buf_caches, pipeVars>>

NextCtor ==
    \/ Quiet(KInit)
    \/ Quiet(SysKmemInit)
    \/ CtorCreate
    \/ CtorAlloc
    \/ CtorAllocReturn
    \/ CtorScribble
    \/ CtorFree
    \/ CtorFreeReturn
    \/ Quiet(\E c \in DOMAIN caches : CacheShrink(Caller, c))

SpecCtor == InitSlab /\ [][NextCtor]_vars

\* C16: in a cache created with a constructor every slot of its slabs that
\* no client holds carries the constructor's pattern, so each object that
\* kmem_cache_alloc returns reads as the pattern, and so does the object
\* right after its holder passed it to kmem_cache_free, whatever the holder
\* wrote into it
CtorFreshness ==
    /\ \A x \in DOMAIN slabs :
          (slabs[x].live /\ slabs[x].cache \in DOMAIN caches
             /\ caches[slabs[x].cache].ctor) =>
              \A a \in Slots(slabs[x].cache, x) :
                  a \notin {h.obj : h \in BagToSet(held)} => objmem[a].pat = "ctor"
    /\ (last.op = "alloc" /\ last.done /\ last.ret # NULL) =>
          objmem[last.ret].pat = "ctor"
    /\ (last.op = "free" /\ last.done) => objmem[last.obj].pat = "ctor"

\* ------------------------------------------------------------------------
\* kmem_cache_shrink observed
\* ------------------------------------------------------------------------
\* object sizes of the caches that are shrunk: four objects on a one-page
\* slab, two on an order-10 slab, one on an order-12 slab
ShrinkSizes == {1000, 2097128, 12 * 1024 * 1024}

\* kmem_cache_shrink calls made on each cache so far, counted up to MaxShrinks
CallsSoFar == IF last.op = "none" THEN <<>> ELSE last.calls

ShrinksOf(c) == IF c \in DOMAIN CallsSoFar THEN CallsSoFar[c] ELSE 0

\* the call before this one
PrevCall == IF last.op = "none" THEN NoCall
            ELSE [op |-> last.op, cache |-> last.cache, ret |-> last.ret,
                  nth |-> last.nth]

\* the record of a call in a history of calls: the call, its result, the
\* state it started from (for a shrink), the call before it, and for a
\* shrink the how-manieth shrink of its cache it is
Noted(op, c, ret) ==
    LET n == IF op = "shrink" THEN Min({ShrinksOf(c) + 1, MaxShrinks}) ELSE 0
    IN  [op |-> op, cache |-> c, ret |-> ret,
         pre |-> IF op = "shrink" THEN Pre ELSE <<>>,
         done |-> pc'[Caller] = "idle",
         nth |-> n,
         prev |-> PrevCall,
         calls |-> IF op = "shrink"
                   THEN [x \in DOMAIN CallsSoFar \cup {c} |->
                           IF x = c THEN n ELSE CallsSoFar[x]]
                   ELSE CallsSoFar]

\* the client creates the one cache whose shrinks are followed
ShrinkCreate ==
    /\ DOMAIN caches = {}
    /\ pc[Caller] = "idle"
    /\ \E size \in ShrinkSizes : CacheCreateWith(size, FALSE)
    /\ last' = Noted("create", registry', NULL)
    /\ UNCHANGED <<small_buf_caches, objmem, pipeVars>>

ShrinkAlloc ==
    \E c \in DOMAIN caches :
        /\ AllocBegin(Caller, c)
        /\ last' = Noted("alloc", c, NULL)
        /\ UNCHANGED <<small_buf_caches, objmem, pipeVars>>

ShrinkAllocReturn ==
    /\ last.op = "alloc"
    /\ AllocEnd(Caller)
    /\ last' = [last EXCEPT !.done = TRUE]
    /\ UNCHANGED <<small_buf_caches, objmem, pipeVars>>

ShrinkFree ==
    \E h \in BagToSet(held) :
        /\ FreeBegin(Caller, h)
        /\ last' = Noted("free", h.cache, NULL)
        /\ UNCHANGED <<small_buf_caches, objmem, pipeVars>>

ShrinkFreeReturn ==
    /\ last.op = "free"
    /\ FreeEnd(Caller)
    /\ last' = [last EXCEPT !.done = pc'[Caller] = "idle"]
    /\ UNCHANGED <<small_buf_caches, objmem, pipeVars>>

\* kmem_cache_shrink(c) and the value it returns, slab.c:474-489
CallShrink ==
    \E c \in DOMAIN caches :
        /\ CacheShrink(Caller, c)
        /\ last' = Noted("shrink", c,
                         IF Gated(caches[c]) THEN 0 ELSE Shrunk(c).freed)
        /\ UNCHANGED <<small_buf_caches, objmem, pipeVars>>

NextShrink ==
    \/ Quiet(KInit)
    \/ Quiet(SysKmemInit)
    \/ ShrinkCreate
    \/ ShrinkAlloc
    \/ ShrinkAllocReturn
    \/ ShrinkFree
    \/ ShrinkFreeReturn
    \/ CallShrink

SpecShrink == InitSlab /\ [][NextShrink]_vars

RECURSIVE ListIn(_, _, _)
\* the slabs reached from a list head by following next in the headers sl
ListIn(sl, head, seen) ==
    IF head = NULL \/ head \in seen \/ head \notin DOMAIN sl THEN seen
    ELSE ListIn(sl, sl[head].next, seen \cup {head})

\* C17: kmem_cache_shrink(C) with grown_since_shrink set clears the flag,
\* returns 0 and releases no slab; otherwise it gives every slab on
\* free_slabs back to the buddy, leaves free_slabs empty, returns the
\* number of slabs released times 2^slab_order, and leaves the partial and
\* full lists, the slabs on them and every allocated object as they were
ShrinkFrame ==
    (last.op = "shrink" /\ last.done) =>
        LET c == last.cache
            pre == last.pre
            C == pre.caches[c]
            F == ListIn(pre.slabs, C.free_slabs, {})
            kept == ListIn(pre.slabs, C.partial_slabs, {})
                       \cup ListIn(pre.slabs, C.full_slabs, {})
        IN  IF C.grown_since_shrink # 0
            THEN /\ last.ret = 0
                 /\ caches = [pre.caches EXCEPT ![c].grown_since_shrink = 0]
                 /\ slabs = pre.slabs
                 /\ b = pre.b
            ELSE /\ caches[c].free_slabs = NULL
                 /\ last.ret = Cardinality(F) * (2 ^ C.slab_order)
                 /\ FreePages(b.free) = FreePages(pre.b.free) + last.ret
                 /\ \A x \in F : <<x, C.slab_order>> \notin BagToSet(b_out)
                 /\ caches[c].partial_slabs = C.partial_slabs
                 /\ caches[c].full_slabs = C.full_slabs
                 /\ \A x \in kept : slabs[x] = pre.slabs[x]
                 /\ \A h \in BagToSet(held) :
                        /\ slabs[h.slab].live
                        /\ h.i \in slabs[h.slab].bitmap

\* C18: when kmem_cache_shrink(C) has returned a positive count, a second
\* kmem_cache_shrink(C) called next returns 0
ShrinkIdempotent ==
    (/\ last.op = "shrink" /\ last.done
     /\ last.prev.op = "shrink" /\ last.prev.cache = last.cache
     /\ last.prev.ret > 0)
        => last.ret = 0

\* a shrink that found nothing to release right after one that released a slab
ShrinkIdempotentWitness ==
    /\ last.op = "shrink" /\ last.done
    /\ last.prev.op = "shrink" /\ last.prev.cache = last.cache
    /\ last.prev.ret > 0
    /\ last.ret = 0
    /\ caches[last.cache].slab_count = 0
    /\ caches[last.cache].alloc_count >= 1

\* the state the scenario of C19 calls shrink in: objects were allocated,
\* none is allocated now, and a slab is on free_slabs
BatchFreed(C) ==
    /\ C.alloc_count >= 1
    /\ C.free_objs = C.total_objs
    /\ C.free_slabs # NULL

\* C19 as stated: on a fresh cache, after a batch was allocated and freed so
\* that a slab is on free_slabs, the first kmem_cache_shrink returns a
\* positive page count and slab_count drops, and the call right after it
\* returns 0
ShrinkGatingFirstReleases ==
    (last.op = "shrink" /\ last.done) =>
        LET C == last.pre.caches[last.cache]
        IN  /\ (last.nth = 1 /\ BatchFreed(C)) =>
                  /\ last.ret > 0
                  /\ caches[last.cache].slab_count < C.slab_count
            /\ (last.nth = 2 /\ last.prev.op = "shrink"
                  /\ last.prev.cache = last.cache /\ last.prev.ret > 0) =>
                  last.ret = 0

\* C19 as the code has it: alloc_slab set grown_since_shrink, so the first
\* kmem_cache_shrink after the batch returns 0, releases nothing and clears
\* the flag; the call right after it returns a positive page count and
\* slab_count drops; the call right after that returns 0
ShrinkGating ==
    (last.op = "shrink" /\ last.done) =>
        LET C == last.pre.caches[last.cache]
            follows == last.prev.op = "shrink" /\ last.prev.cache = last.cache
        IN  /\ (last.nth = 1 /\ BatchFreed(C)) =>
                  /\ last.ret = 0
                  /\ caches[last.cache].slab_count = C.slab_count
                  /\ caches[last.cache].free_slabs = C.free_slabs
            /\ (last.nth = 2 /\ follows /\ BatchFreed(C)) =>
                  /\ last.ret > 0
                  /\ caches[last.cache].slab_count < C.slab_count
            /\ (last.nth = 3 /\ follows /\ last.prev.nth = 2
                  /\ last.prev.ret > 0) =>
                  last.ret = 0

\* the third shrink in a row after a batch: the second released the slab
ShrinkGatingWitness ==
    /\ last.op = "shrink" /\ last.done
    /\ last.nth = 3
    /\ last.prev.op = "shrink" /\ last.prev.cache = last.cache
    /\ last.prev.nth = 2 /\ last.prev.ret > 0
    /\ last.ret = 0
    /\ caches[last.cache].alloc_count >= 1
    /\ caches[last.cache].free_count_total = caches[last.cache].alloc_count

\* ------------------------------------------------------------------------
\* kmem_cache_destroy
\* ------------------------------------------------------------------------
RECURSIVE DestroyLoop(_, _, _)
\* while (list) { s = list; list = s->next; destroy_slab(cachep, s); } for
\* the partial and the full list, slab.c:510-520 and 145-167 without
\* destructor: w as in ShrinkLoop, head the slab the list points at
DestroyLoop(w, head, seen) ==
    IF head = NULL \/ w.hang THEN w
    ELSE IF head \in seen THEN [w EXCEPT !.hang = TRUE]
    ELSE LET S == w.sl[head]
             nb == buddy_free(w.b, head, S.order)
         IN  DestroyLoop(
               [w EXCEPT !.C.slab_count = @ - 1,
                         !.C.total_objs = @ - w.C.obj_per_slab,
                         !.C.free_objs = @ - S.free_count,
                         !.sl = Threaded([w.sl EXCEPT ![head].live = FALSE], nb),
                         !.b = nb,
                         !.out = @ (-) SetToBag({<<head, S.order>>})],
               S.next, seen \cup {head})

\* slab.c:503-520: the three loops, over free_slabs, partial_slabs and
\* full_slabs
Destroyed(c) ==
    LET w1 == Shrunk(c)
        w2 == DestroyLoop(w1, caches[c].partial_slabs, {})
    IN  DestroyLoop(w2, caches[c].full_slabs, {})

\* an unlink that only looks at the head of the registry
UnregisteredAtHead(c) ==
    [head |-> IF registry = c THEN caches[c].next ELSE registry,
     next |-> [x \in DOMAIN caches \ {c} |-> caches[x].next]]

\* slab.c:525-534: the registry with cachep taken out
Unregistered(c) ==
    [head |-> IF registry = c THEN caches[c].next ELSE registry,
     next |-> [x \in DOMAIN caches \ {c} |->
                 IF caches[x].next = c /\ registry # c
                 THEN caches[c].next ELSE caches[x].next]]

\* kmem_cache_destroy(c), slab.c:496-542: release the slabs of the three
\* lists under the cache lock, unlink the cache from the registry, give
\* the descriptor page back; the objects clients still held are gone
CacheDestroy(t, c) ==
    /\ phase = "run"
    /\ pc[t] = "idle"
    /\ CanAcquire(c)
    /\ LET w == Destroyed(c)
           u == Unregistered(c)
           nb == buddy_free(w.b, c, 0)
       IN  IF w.hang
           THEN /\ caches' = [caches EXCEPT ![c] = [w.C EXCEPT !.lock = t]]
                /\ slabs' = w.sl
                /\ b' = w.b
                /\ b_out' = w.out
                /\ pc' = [pc EXCEPT ![t] = "hang"]
                /\ UNCHANGED <<registry, held>>
           ELSE /\ caches' = [x \in DOMAIN caches \ {c} |->
                                [caches[x] EXCEPT !.next = u.next[x]]]
                /\ registry' = u.head
                /\ slabs' = Threaded(w.sl, nb)
                /\ b' = nb
                /\ b_out' = w.out (-) SetToBag({<<c, 0>>})
                /\ held' = held (-) SetToBag({h \in BagToSet(held) : h.cache = c})
                /\ UNCHANGED pc
    /\ UNCHANGED <<phase, mode, loc, b_init, b_ret>>

\* object sizes of the caches torn down: four objects on a one-page slab,
\* two on an order-10 slab, one on an order-12 slab
DestroySizes == {1000, 2097128, 12 * 1024 * 1024}

\* the run is one life of a cache and ends with its teardown
Standing == last.op # "destroy"

DestroyCreate ==
    /\ Cardinality(DOMAIN caches) < MaxCaches
    /\ pc[Caller] = "idle"
    /\ \E size \in DestroySizes : CacheCreateWith(size, FALSE)

CallDestroy ==
    \E c \in DOMAIN caches :
        /\ CacheDestroy(Caller, c)
        /\ last' = [op |-> "destroy", cache |-> c, done |-> pc'[Caller] = "idle"]
        /\ UNCHANGED <<small_buf_caches, objmem, pipeVars>>

NextDestroy ==
    \/ Quiet(KInit)
    \/ Quiet(SysKmemInit)
    \/ Standing /\ Quiet(DestroyCreate)
    \/ Quiet(\E c \in DOMAIN caches : AllocBegin(Caller, c))
    \/ Quiet(AllocEnd(Caller))
    \/ Quiet(\E h \in BagToSet(held) : FreeBegin(Caller, h))
    \/ Quiet(FreeEnd(Caller))
    \/ Quiet(\E c \in DOMAIN caches : CacheShrink(Caller, c))
    \/ CallDestroy

SpecDestroy == InitSlab /\ [][NextDestroy]_vars

\* C20: kmem_cache_create, then any kmem_cache_alloc / kmem_cache_free /
\* kmem_cache_shrink on the cache, then kmem_cache_destroy: every slab and
\* the descriptor page are back with the buddy exactly once, so the buddy's
\* free lists hold the multiset of (order, address) they held before the
\* create, and the cache is not in the registry
DestroyRoundTrip ==
    (last.op = "destroy" /\ last.done) =>
        /\ FreeBag(b.free) = FreeBag(b_init)
        /\ b_out = EmptyBag
        /\ registry = NULL
        /\ last.cache \notin DOMAIN caches

\* ------------------------------------------------------------------------
\* kmem_cache_error
\* ------------------------------------------------------------------------
\* kmem_cache_error(c), slab.c:579-591: under the cache lock read
\* cachep->error, print it when it is not 0, release the lock, return it
CacheError(t, c) ==
    /\ phase = "run"
    /\ pc[t] = "idle"
    /\ c \in DOMAIN caches
    /\ CanAcquire(c)
    /\ UNCHANGED <<phase, buddyVars, slabVars>>

\* the value kmem_cache_error(c) returns
ErrorCode(c) == caches[c].error

\* err = kmem_cache_error(c), with what the call before it returned when
\* that was a kmem_cache_error(c) too and nothing ran between the two (-1
\* otherwise)
CallError ==
    \E c \in DOMAIN caches :
        /\ CacheError(Caller, c)
        /\ last' = [op |-> "error", cache |-> c, ret |-> ErrorCode(c),
                    before |-> IF last.op = "error" /\ last.cache = c
                               THEN last.ret ELSE -1]
        /\ UNCHANGED <<small_buf_caches, objmem, pipeVars>>

\* one client that allocates, frees any slot address through any cache, and
\* asks for the error code
NextError ==
    \/ Quiet(KInit)
    \/ Quiet(SysKmemInit)
    \/ Quiet(CallCreate)
    \/ \E c \in DOMAIN caches : Quiet(AllocBegin(Caller, c))
    \/ Quiet(AllocEnd(Caller))
    \/ \E c \in DOMAIN caches, objp \in FreePointers : Quiet(FreeCall(Caller, c, objp))
    \/ Quiet(FreeEnd(Caller))
    \/ CallError

SpecError == InitSlab /\ [][NextError]_vars

\* C21: kmem_cache_error(C) returns the code the most recent fault set and
\* resets it: after the call the cache's code is 0, and a second call with
\* nothing between the two returns 0
ErrorClearOnRead ==
    last.op = "error" =>
        /\ caches[last.cache].error = 0
        /\ last.before # -1 => last.ret = 0

\* ------------------------------------------------------------------------
\* kmalloc and kfree called by several threads
\* ------------------------------------------------------------------------
\* requests of the racing threads: both fall into the size-32 class
LazySizes == {20, 32}

\* kmalloc calls that are under way or have taken an object
KmallocsStarted ==
    TotalAllocs
      + Cardinality({t \in Threads : pc[t] \in {"km_lock", "km_create", "km_alloc"}})

\* kmalloc(size), slab.c:609-617: the first, unlocked look at the table
KmStart(t, size) ==
    /\ phase = "run"
    /\ pc[t] = "idle"
    /\ KmallocsStarted < MaxAllocs
    /\ LET i == size_to_index(size)
       IN  /\ size # 0 /\ i >= 0
           /\ pc' = [pc EXCEPT ![t] = IF small_buf_caches[i] = NULL
                                      THEN "km_lock" ELSE "km_alloc"]
           /\ loc' = [loc EXCEPT ![t] = [NoLocals EXCEPT !.i = i]]
    /\ UNCHANGED <<phase, buddyVars, mode, caches, registry, slabs, held>>
    /\ UNCHANGED <<small_buf_caches, objmem, pipeVars>>

\* slab.c:618-644: acquire(&slab_state.lock), look again, build the name,
\* release(&slab_state.lock)
KmLocked(t) ==
    /\ pc[t] = "km_lock"
    /\ pc' = [pc EXCEPT ![t] = IF small_buf_caches[loc[t].i] = NULL
                               THEN "km_create" ELSE "km_alloc"]
    /\ UNCHANGED <<phase, buddyVars, mode, caches, registry, slabs, held, loc>>
    /\ UNCHANGED <<small_buf_caches, objmem, pipeVars>>

\* slab.c:639-641, after the lock was released:
\* small_buf_caches[idx] = kmem_cache_create(name, buf_size, 0, 0)
KmCreate(t) ==
    /\ pc[t] = "km_create"
    /\ CreateCache(2 ^ (SMALL_BUF_MIN_ORDER + loc[t].i), FALSE)
    /\ LET made == IF registry' # registry THEN registry' ELSE NULL
       IN  /\ small_buf_caches' = [small_buf_caches EXCEPT ![loc[t].i] = made]
           /\ pc' = [pc EXCEPT ![t] = IF made = NULL THEN "idle" ELSE "km_alloc"]
           /\ loc' = IF made = NULL THEN [loc EXCEPT ![t] = NoLocals] ELSE loc
    /\ UNCHANGED <<objmem, pipeVars>>

\* slab.c:647: return kmem_cache_alloc(small_buf_caches[idx])
KmAlloc(t) ==
    /\ pc[t] = "km_alloc"
    /\ IF small_buf_caches[loc[t].i] = NULL
       THEN /\ pc' = [pc EXCEPT ![t] = "idle"]
            /\ loc' = [loc EXCEPT ![t] = NoLocals]
            /\ UNCHANGED <<phase, buddyVars, mode, caches, registry, slabs, held>>
       ELSE AllocEnter(t, small_buf_caches[loc[t].i])
    /\ UNCHANGED <<small_buf_caches, objmem, pipeVars>>

\* kfree(p), slab.c:650-676, for an object a kmalloc returned and the client
\* still holds: kmem_cache_free on the class found, or the message that the
\* object could not be found
Kfree(t, h) ==
    /\ phase = "run"
    /\ pc[t] = "idle"
    /\ h \in BagToSet(held)
    /\ \A u \in Threads : ~(pc[u] = "free" /\ loc[u].obj = h.obj)
    /\ IF KfreeTarget(h.obj) = NULL
       THEN UNCHANGED <<phase, buddyVars, slabVars>>
       ELSE FreeCall(t, KfreeTarget(h.obj), h.obj)
    /\ UNCHANGED <<small_buf_caches, objmem, pipeVars>>

\* kfree observed: the object and the cache it was dispatched to
KfreeNoted ==
    \E t \in Threads, h \in BagToSet(held) :
        /\ Kfree(t, h)
        /\ last' = [op |-> "kfree", obj |-> h.obj, cache |-> KfreeTarget(h.obj)]

Unnoted(A) == A /\ last' = NoCall

NextLazy ==
    \/ Quiet(SysKmemInit)
    \/ \E t \in Threads, size \in LazySizes : Unnoted(KmStart(t, size))
    \/ \E t \in Threads : Unnoted(KmLocked(t))
    \/ \E t \in Threads : Unnoted(KmCreate(t))
    \/ \E t \in Threads : Unnoted(KmAlloc(t))
    \/ \E t \in Threads : Quiet(AllocEnd(t))
    \/ KfreeNoted
    \/ \E t \in Threads : Quiet(FreeEnd(t))

SpecLazy == InitKmalloc /\ [][NextLazy]_vars

\* C22: however concurrent kmalloc calls of one size class interleave, at
\* most one cache is created for the class and the class's entry of
\* small_buf_caches is assigned once, so every cache created is the one its
\* entry names; and every object a kmalloc returned can be freed by kfree,
\* which finds the object's own cache
LazyCreationOnce ==
    /\ \A c \in DOMAIN caches :
          small_buf_caches[size_to_index(caches[c].obj_size)] = c
    /\ \A c1 \in DOMAIN caches, c2 \in DOMAIN caches :
          caches[c1].obj_size = caches[c2].obj_size => c1 = c2
    /\ \A h \in BagToSet(held) : KfreeTarget(h.obj) = h.cache

\* ------------------------------------------------------------------------
\* Locks: what each operation acquires, writes and releases, in program order
\* ------------------------------------------------------------------------
\* slab_state.lock, the lock of the buddy the slab layer uses, a cache's lock
RegistryLock == <<"registry", 0>>
BuddyLock == <<"buddy", 0>>
CacheLock(c) == <<"cache", c>>
\* small_buf_caches[i], which has no lock of its own
TableEntry(i) == <<"small_buf", i>>

\* acquire(&l), release(&l), and a store to what l stands for: the registry
\* list, the buddy's free lists, or the lists and counters of a cache
Acq(l) == [k |-> "acq", on |-> l]
Rel(l) == [k |-> "rel", on |-> l]
Wr(x) == [k |-> "wr", on |-> x]

\* buddy_alloc, buddy.c:99-128: no lock for an order out of range, else the
\* lock around the scan and, when a block is found, the list updates
BuddyAllocLocks(bb, order) ==
    IF order < MIN_ORDER \/ order > bb.max_order THEN <<>>
    ELSE IF FirstFit(bb, order) > bb.max_order
         THEN <<Acq(BuddyLock), Rel(BuddyLock)>>
         ELSE <<Acq(BuddyLock), Wr(BuddyLock), Rel(BuddyLock)>>

\* buddy_free, buddy.c:133-177
BuddyFreeLocks(bb, addr, order) ==
    IF addr = NULL \/ order < MIN_ORDER \/ order > bb.max_order THEN <<>>
    ELSE IF OutOfRegion(bb, addr)
         THEN <<Acq(BuddyLock), Rel(BuddyLock)>>
         ELSE <<Acq(BuddyLock), Wr(BuddyLock), Rel(BuddyLock)>>

\* kmem_cache_create, slab.c:230-291: the descriptor page from the buddy,
\* the descriptor filled in before any other thread can reach it, then the
\* registry lock around the push on the cache list
CreateLocks(size) ==
    LET r == buddy_alloc(b, 0)
    IN  IF size = 0 THEN <<>>
        ELSE IF r.ret = NULL THEN BuddyAllocLocks(b, 0)
        ELSE IF NewCache(ALIGN8(size), FALSE).obj_per_slab <= 0
        THEN BuddyAllocLocks(b, 0) \o BuddyFreeLocks(r.b, r.ret, 0)
        ELSE BuddyAllocLocks(b, 0)
                \o <<Acq(RegistryLock), Wr(RegistryLock), Rel(RegistryLock)>>

\* the fields of a descriptor other than the lock word
Unlocked(C) == [C EXCEPT !.lock = 0]

\* kmem_cache_alloc up to the choice of the slot, slab.c:303-335: the cache
\* lock, alloc_slab's buddy_alloc when there is no partial and no free slab,
\* the list, counter or error updates, and the release on the two early
\* returns
AllocEnterLocks(c) ==
    LET C == caches[c]
        grow == C.partial_slabs = NULL /\ C.free_slabs = NULL
    IN  <<Acq(CacheLock(c))>>
          \o (IF grow THEN BuddyAllocLocks(b, C.slab_order) ELSE <<>>)
          \o (IF Unlocked(caches'[c]) # Unlocked(C) THEN <<Wr(CacheLock(c))>> ELSE <<>>)
          \o (IF caches'[c].lock = 0 THEN <<Rel(CacheLock(c))>> ELSE <<>>)

\* kmem_cache_alloc from the bitmap update to the return, slab.c:337-376
AllocEndLocks(c) == <<Wr(CacheLock(c)), Rel(CacheLock(c))>>

\* kmem_cache_free up to the validation, slab.c:398-416
FreeCallLocks(c) ==
    <<Acq(CacheLock(c))>>
      \o (IF Unlocked(caches'[c]) # Unlocked(caches[c]) THEN <<Wr(CacheLock(c))>> ELSE <<>>)
      \o (IF caches'[c].lock = 0 THEN <<Rel(CacheLock(c))>> ELSE <<>>)

\* kmem_cache_free from the bitmap update on, slab.c:418-458; a walk that
\* never ends never reaches the release
FreeEndLocks(c) ==
    <<Wr(CacheLock(c))>>
      \o (IF caches'[c].lock = 0 THEN <<Rel(CacheLock(c))>> ELSE <<>>)

RECURSIVE SlabLocks(_, _, _, _)
\* one round of a release loop for each slab of a list: the unlink and the
\* counters, then buddy_free (slab.c:481-486, 504-520, 158-166, 180-188)
SlabLocks(c, sl, head, seen) ==
    IF head = NULL \/ head \in seen \/ head \notin DOMAIN sl THEN <<>>
    ELSE <<Wr(CacheLock(c))>> \o BuddyFreeLocks(b, head, sl[head].order)
            \o SlabLocks(c, sl, sl[head].next, seen \cup {head})

\* kmem_cache_shrink, slab.c:471-489
ShrinkLocks(c) ==
    <<Acq(CacheLock(c))>>
      \o (IF Gated(caches[c]) THEN <<Wr(CacheLock(c))>>
          ELSE SlabLocks(c, slabs, caches[c].free_slabs, {}))
      \o (IF caches'[c].lock = 0 THEN <<Rel(CacheLock(c))>> ELSE <<>>)

\* kmem_cache_destroy with the registry taken before the cache lock is let go
DestroyLocksNested(c) ==
    <<Acq(CacheLock(c))>>
      \o SlabLocks(c, slabs, caches[c].free_slabs, {})
      \o SlabLocks(c, slabs, caches[c].partial_slabs, {})
      \o SlabLocks(c, slabs, caches[c].full_slabs, {})
      \o <<Acq(RegistryLock), Rel(CacheLock(c)), Wr(RegistryLock), Rel(RegistryLock)>>
      \o BuddyFreeLocks(b, c, 0)

\* kmem_cache_destroy, slab.c:501-541: the three loops under the cache lock,
\* release(&cachep->lock), then the registry lock around the unlink, then
\* buddy_free of the descriptor page with neither held; a loop that never
\* ends stays inside the cache lock
DestroyLocks(c) ==
    <<Acq(CacheLock(c))>>
      \o SlabLocks(c, slabs, caches[c].free_slabs, {})
      \o SlabLocks(c, slabs, caches[c].partial_slabs, {})
      \o SlabLocks(c, slabs, caches[c].full_slabs, {})
      \o (IF c \in DOMAIN caches'
          THEN <<>>
          ELSE <<Rel(CacheLock(c)), Acq(RegistryLock), Wr(RegistryLock),
                 Rel(RegistryLock)>> \o BuddyFreeLocks(b, c, 0))

\* kmem_cache_error, slab.c:584-589
ErrorLocks(c) == <<Acq(CacheLock(c)), Rel(CacheLock(c))>>

\* kmalloc's second look at the table, slab.c:618-644
KmLockedLocks == <<Acq(RegistryLock), Rel(RegistryLock)>>

\* small_buf_caches[idx] = kmem_cache_create(...), slab.c:639
KmCreateLocks(i) ==
    CreateLocks(2 ^ (SMALL_BUF_MIN_ORDER + i)) \o <<Wr(TableEntry(i))>>

\* the cache locks thread t holds between two of its steps
HeldBy(t) == {CacheLock(c) : c \in {x \in DOMAIN caches : caches[x].lock = t}}

\* the step just taken: which thread, in which operation, holding which
\* locks when it began, and the lock events it went through
Logged(t, op, events) ==
    /\ last' = [op |-> op, t |-> t, held0 |-> HeldBy(t), events |-> events]
    /\ UNCHANGED objmem

\* ------------------------------------------------------------------------
\* Every operation, by two threads, with its lock events
\* ------------------------------------------------------------------------
\* object sizes of the caches clients create: four objects on a one-page
\* slab, one object on an order-12 slab
LockSizes == {1000, 12 * 1024 * 1024}

\* the caches made by kmem_cache_create calls of clients: those kmalloc
\* made have a power of two of at most 2^17 as object size
ClientCaches ==
    {c \in DOMAIN caches : caches[c].obj_size \in {ALIGN8(s) : s \in LockSizes}}

\* a run works on one cache a client creates or on the size-class caches
LkCreate(t) ==
    /\ pc[t] = "idle"
    /\ DOMAIN caches = {}
    /\ \A u \in Threads : pc[u] = "idle"
    /\ \E size \in LockSizes :
          /\ CacheCreateWith(size, FALSE)
          /\ Logged(t, "create", CreateLocks(size))
    /\ UNCHANGED <<small_buf_caches, pipeVars>>

LkAlloc(t) ==
    \E c \in ClientCaches :
        /\ AllocBegin(t, c)
        /\ Logged(t, "alloc", AllocEnterLocks(c))
        /\ UNCHANGED <<small_buf_caches, pipeVars>>

LkAllocEnd(t) ==
    /\ AllocEnd(t)
    /\ Logged(t, "alloc", AllocEndLocks(loc[t].cache))
    /\ UNCHANGED <<small_buf_caches, pipeVars>>

LkFree(t) ==
    \E h \in BagToSet(held) :
        /\ h.cache \in ClientCaches
        /\ FreeBegin(t, h)
        /\ Logged(t, "free", FreeCallLocks(h.cache))
        /\ UNCHANGED <<small_buf_caches, pipeVars>>

LkFreeEnd(t) ==
    /\ FreeEnd(t)
    /\ Logged(t, "free", FreeEndLocks(loc[t].cache))
    /\ UNCHANGED <<small_buf_caches, pipeVars>>

LkShrink(t) ==
    \E c \in ClientCaches :
        /\ CacheShrink(t, c)
        /\ Logged(t, "shrink", ShrinkLocks(c))
        /\ UNCHANGED <<small_buf_caches, pipeVars>>

LkDestroy(t) ==
    \E c \in ClientCaches :
        /\ CacheDestroy(t, c)
        /\ Logged(t, "destroy", DestroyLocks(c))
        /\ UNCHANGED <<small_buf_caches, pipeVars>>

LkError(t) ==
    \E c \in ClientCaches :
        /\ CacheError(t, c)
        /\ Logged(t, "error", ErrorLocks(c))
        /\ UNCHANGED <<small_buf_caches, pipeVars>>

LkKmStart(t) ==
    \E size \in LazySizes :
        /\ ClientCaches = {}
        /\ KmStart(t, size)
        /\ last' = [op |-> "kmalloc", t |-> t, held0 |-> HeldBy(t), events |-> <<>>]

LkKmLocked(t) ==
    /\ KmLocked(t)
    /\ last' = [op |-> "kmalloc", t |-> t, held0 |-> HeldBy(t),
                events |-> KmLockedLocks]

LkKmCreate(t) ==
    /\ KmCreate(t)
    /\ last' = [op |-> "kmalloc", t |-> t, held0 |-> HeldBy(t),
                events |-> KmCreateLocks(loc[t].i)]

LkKmAlloc(t) ==
    /\ KmAlloc(t)
    /\ last' = [op |-> "kmalloc", t |-> t, held0 |-> HeldBy(t),
                events |-> IF small_buf_caches[loc[t].i] = NULL THEN <<>>
                           ELSE AllocEnterLocks(small_buf_caches[loc[t].i])]

LkKfree(t) ==
    \E h \in BagToSet(held) :
        /\ h.cache \notin ClientCaches
        /\ Kfree(t, h)
        /\ last' = [op |-> "kfree", t |-> t, held0 |-> HeldBy(t),
                    events |-> IF KfreeTarget(h.obj) = NULL THEN <<>>
                               ELSE FreeCallLocks(KfreeTarget(h.obj))]

\* the run is followed up to the first kmem_cache_destroy
NextLocks ==
    \/ Quiet(KInit)
    \/ Quiet(SysKmemInit)
    \/ Standing /\ \E t \in Threads : LkCreate(t)
    \/ Standing /\ \E t \in Threads : LkAlloc(t)
    \/ Standing /\ \E t \in Threads : LkAllocEnd(t)
    \/ Standing /\ \E t \in Threads : LkFree(t)
    \/ Standing /\ \E t \in Threads : LkFreeEnd(t)
    \/ Standing /\ \E t \in Threads : LkShrink(t)
    \/ Standing /\ \E t \in Threads : LkDestroy(t)
    \/ Standing /\ \E t \in Threads : LkError(t)
    \/ Standing /\ \E t \in Threads : LkKmStart(t)
    \/ Standing /\ \E t \in Threads : LkKmLocked(t)
    \/ Standing /\ \E t \in Threads : LkKmCreate(t)
    \/ Standing /\ \E t \in Threads : LkKmAlloc(t)
    \/ Standing /\ \E t \in Threads : LkKfree(t)

SpecLocks == InitSlab /\ [][NextLocks]_vars

RECURSIVE OrderKept(_, _)
\* the events, gone through by a thread that holds the locks H: no acquire
\* of a cache lock or of the registry lock while the buddy lock is held, and
\* the registry lock never held together with a cache lock
OrderKept(H, events) ==
    IF events = <<>> THEN TRUE
    ELSE LET e == Head(events)
             H1 == IF e.k = "acq" THEN H \cup {e.on}
                   ELSE IF e.k = "rel" THEN H \ {e.on}
                   ELSE H
         IN  /\ e.k = "acq" =>
                   /\ ~(BuddyLock \in H /\ e.on[1] \in {"cache", "registry"})
                   /\ ~(RegistryLock \in H1 /\ \E x \in H1 : x[1] = "cache")
             /\ OrderKept(H1, Tail(events))

RECURSIVE HeldAfter(_, _)
\* the locks held after the events
HeldAfter(H, events) ==
    IF events = <<>> THEN H
    ELSE LET e == Head(events)
         IN  HeldAfter(IF e.k = "acq" THEN H \cup {e.on}
                       ELSE IF e.k = "rel" THEN H \ {e.on}
                       ELSE H, Tail(events))

RECURSIVE NestedIn(_, _, _, _)
\* some acquire of lock inner is made while lock outer is held
NestedIn(H, events, outer, inner) ==
    IF events = <<>> THEN FALSE
    ELSE LET e == Head(events)
         IN  \/ e.k = "acq" /\ e.on[1] = inner /\ \E x \in H : x[1] = outer
             \/ NestedIn(IF e.k = "acq" THEN H \cup {e.on}
                         ELSE IF e.k = "rel" THEN H \ {e.on}
                         ELSE H, Tail(events), outer, inner)

\* C23: in every step of every interleaving of the allocator's operations,
\* no thread holds the registry lock while it holds a cache lock, a thread
\* that holds the buddy lock acquires no cache lock and not the registry
\* lock, and between its steps a thread holds cache locks only
LockOrdering ==
    /\ last.op # "none" =>
          /\ OrderKept(last.held0, last.events)
          /\ HeldAfter(last.held0, last.events) = HeldBy(last.t)
    /\ \A t \in Threads : HeldBy(t) # {} => pc[t] # "idle"

\* a kmem_cache_destroy that released slabs: the buddy lock was taken inside
\* the cache lock, and the registry lock after the cache lock was let go
LockOrderingWitness ==
    /\ last.op = "destroy"
    /\ NestedIn(last.held0, last.events, "cache", "buddy")
    /\ Acq(RegistryLock) \in Range(last.events)
    /\ pc[last.t] = "idle"

\* the lock that stands guard over what a store goes to: the registry lock
\* for the registry list and for the size-class table, its own lock for a
\* cache and for the buddy
GuardOf(x) == IF x[1] = "small_buf" THEN RegistryLock ELSE x

RECURSIVE WritesGuarded(_, _)
\* every store among the events is made with its guarding lock held
WritesGuarded(H, events) ==
    IF events = <<>> THEN TRUE
    ELSE LET e == Head(events)
             H1 == IF e.k = "acq" THEN H \cup {e.on}
                   ELSE IF e.k = "rel" THEN H \ {e.on}
                   ELSE H
         IN  /\ e.k = "wr" => GuardOf(e.on) \in H
             /\ WritesGuarded(H1, Tail(events))

\* C24: after initialization every change of a cache's lists or counters is
\* made by a thread holding that cache's lock, every change of the buddy's
\* free lists by a thread holding the buddy lock, and every write to the
\* cache registry or to small_buf_caches by a thread holding the registry
\* lock
LockProtectedWrites ==
    last.op # "none" => WritesGuarded(last.held0, last.events)

\* ------------------------------------------------------------------------
\* Completion
\* ------------------------------------------------------------------------
\* the steps by which a thread inside an operation goes on without waiting
LkContinue(t) ==
    Standing /\ (LkAllocEnd(t) \/ LkFreeEnd(t) \/ LkKmLocked(t) \/ LkKmCreate(t))

\* the step of kmalloc that waits for a cache lock
LkAcquire(t) == Standing /\ LkKmAlloc(t)

\* a thread inside an operation keeps running, and a spinning acquire gets
\* the lock if the lock is free again and again
SpecLocksFair ==
    /\ SpecLocks
    /\ \A t \in Threads : WF_vars(LkContinue(t)) /\ SF_vars(LkAcquire(t))

\* C25: under fair lock acquisition every call of an allocator operation
\* returns, whatever its exit path and whatever the cache's geometry, one
\* object per slab included, and holds none of the locks it took when it has
\* returned
Completion ==
    /\ [](\A t \in Threads : pc[t] = "idle" => HeldBy(t) = {})
    /\ \A t \in Threads : (pc[t] # "idle") ~> (pc[t] = "idle")

\* ------------------------------------------------------------------------
\* sys_kmem_init called again
\* ------------------------------------------------------------------------
\* sys_kmem_init() without SLAB_KERNEL, sysslab.c:109-118, called when the
\* allocator is running: kmem_init(SLAB_TEST_START, SLAB_TEST_BLOCKS) empties
\* the registry and the size-class table and runs buddy_init over the region
\* once more; the descriptors and the objects clients hold stay where they
\* are, and the first word of every block put on a free list is a list link
KmemInitAgain ==
    /\ phase = "run"
    /\ mode = "private"
    /\ \A t \in Threads : pc[t] = "idle"
    /\ LET space == SLAB_TEST_START
           mem_end == space + SLAB_TEST_BLOCKS * BLOCK_SIZE
           nb == buddy_init(b, space, mem_end)
       IN  /\ b' = nb
           /\ b_init' = nb.free
           /\ slabs' = Threaded(slabs, nb)
    /\ registry' = NULL
    /\ small_buf_caches' = [i \in 0..(NUM_SMALL_BUF_SIZES - 1) |-> NULL]
    /\ UNCHANGED <<phase, b_out, b_ret, mode, caches, held, pc, loc, objmem, pipeVars>>

\* the call observed, with what was outstanding when it was made
CallKmemInit ==
    /\ KmemInitAgain
    /\ last' = [op |-> "kmem_init", pre |-> Pre, held |-> held]

\* the run is followed up to the second sys_kmem_init
InitedOnce == last.op # "kmem_init"

InitCreate ==
    /\ Cardinality(DOMAIN caches) < MaxCaches
    /\ pc[Caller] = "idle"
    /\ CacheCreateWith(1000, FALSE)

NextInit ==
    \/ Quiet(SysKmemInit)
    \/ InitedOnce /\ Quiet(InitCreate)
    \/ InitedOnce /\ Quiet(\E c \in DOMAIN caches : AllocBegin(Caller, c))
    \/ InitedOnce /\ Quiet(AllocEnd(Caller))
    \/ InitedOnce /\ Quiet(\E h \in BagToSet(held) : FreeBegin(Caller, h))
    \/ InitedOnce /\ Quiet(FreeEnd(Caller))
    \/ InitedOnce /\ Quiet(\E c \in DOMAIN caches : CacheShrink(Caller, c))
    \/ InitedOnce /\ Quiet(\E c \in DOMAIN caches : CacheDestroy(Caller, c))
    \/ InitedOnce /\ CallKmemInit

SpecInit == InitKmalloc /\ [][NextInit]_vars

\* C26: in the private mode no sequence of system calls runs buddy_init and
\* the reset of the registry and of the size-class table again while a
\* cache or an object obtained earlier is outstanding, so that no block a
\* client still has is on a free list after an initialization
BuddyInitOnce ==
    last.op = "kmem_init" =>
        /\ DOMAIN last.pre.caches = {}
        /\ last.held = EmptyBag
        /\ last.pre.out = EmptyBag
        /\ \A blk \in BagToSet(b_out), e \in FreeNodes :
              ~Overlap(blk[1], blk[2], NodeAddr(e), e[1])

\* ------------------------------------------------------------------------
\* kmem_cache_create observed
\* ------------------------------------------------------------------------
\* kmem_init(space, block_num), slab.c:195-212, without SLAB_KERNEL: the
\* private buddy over block_num pages from space
KmemInit(space, block_num) ==
    /\ phase = "boot"
    /\ mode = "private"
    /\ LET mem_end == space + block_num * BLOCK_SIZE
           nb == IF space # NULL /\ block_num > 0
                 THEN buddy_init(b, space, mem_end) ELSE b
       IN  b' = nb /\ b_init' = nb.free
    /\ registry' = NULL
    /\ phase' = "run"
    /\ UNCHANGED <<b_out, b_ret, mode, caches, slabs, held, pc, loc>>

\* the regions given to kmem_init: a few pages, of which the descriptors
\* take the last, and the region of sys_kmem_init
InitBlocks == (1..MaxRegionPages) \cup {SLAB_TEST_BLOCKS}

\* sizes given to kmem_cache_create: none, four objects to a page, and more
\* than the largest slab (2^14 pages) holds
CreateSizes == {0, 1000, 65 * 1024 * 1024}

\* cache = kmem_cache_create(name, size, 0, 0) with its result
CallCreateSize ==
    \E size \in CreateSizes :
        /\ pc[Caller] = "idle"
        /\ Cardinality(DOMAIN caches) <= MaxCaches
        /\ CacheCreateWith(size, FALSE)
        /\ last' = [op |-> "create", size |-> size, pre |-> Pre,
                    ret |-> IF registry' # registry THEN registry' ELSE NULL]
        /\ UNCHANGED <<small_buf_caches, objmem, pipeVars>>

NextCreate ==
    \/ \E n \in InitBlocks : Quiet(KmemInit(SLAB_TEST_START, n))
    \/ CallCreateSize
    \/ Quiet(\E c \in DOMAIN caches : AllocBegin(Caller, c))
    \/ Quiet(AllocEnd(Caller))
    \/ Quiet(\E h \in BagToSet(held) : FreeBegin(Caller, h))
    \/ Quiet(FreeEnd(Caller))

SpecCreate == InitKmalloc /\ [][NextCreate]_vars

\* C27: kmem_cache_create returns null for size 0, when the buddy has no
\* page for the descriptor, and when no slab order holds one object; then
\* the registry and the caches are as before, no page stays allocated and
\* the buddy's free lists are what they were before the call
CreateNull ==
    last.op = "create" =>
        LET pre == last.pre
            nopage == buddy_alloc(pre.b, 0).ret = NULL
            nofit == \A order \in 0..14 :
                         compute_obj_per_slab(ALIGN8(last.size), order) < 1
        IN  (last.size = 0 \/ nopage \/ nofit) =>
                /\ last.ret = NULL
                /\ registry = pre.registry
                /\ caches = pre.caches
                /\ b_out = pre.out
                /\ b.free = pre.b.free

\* a create of objects no slab can hold, refused after its descriptor page
\* was split off a larger block while another cache has a slab
CreateNullWitness ==
    /\ last.op = "create"
    /\ last.size > (2 ^ 14) * BLOCK_SIZE
    /\ last.ret = NULL
    /\ b_ret # NULL
    /\ last.pre.b.free[idx(0)] = <<>>
    /\ \E c \in DOMAIN caches : caches[c].slab_count >= 1

\* ------------------------------------------------------------------------
\* The buddy allocator with each buddy_free call observed
\* ------------------------------------------------------------------------
\* addresses a caller can pass that are no block of the region: null, the
\* page below the region, the first byte past it
StrayAddrs(bb) == {NULL, bb.start - BLOCK_SIZE, bb.start + bb.total_size}
\* the orders passed along: one below MIN_ORDER, the smallest, a large one
\* that only a region of 2^14 pages or more has, one above MAX_ORDER
FreeOrders == {MIN_ORDER - 1, MIN_ORDER, MAX_ORDER - 1, MAX_ORDER + 1}

\* what buddy_free is called with: a block with the order it was allocated
\* with, a block with an order outside [MIN_ORDER, max_order], or a stray
\* address with any order
FreeInputs ==
    BagToSet(b_out)
    \cup {<<blk[1], o>> : blk \in BagToSet(b_out),
                          o \in {x \in FreeOrders : x < MIN_ORDER \/ x > b.max_order}}
    \cup (StrayAddrs(b) \X FreeOrders)

\* buddy_free(b, addr, order), with its arguments, the allocator as it was
\* when the call was made, and the lock events of the call
BuddyFreeCall ==
    /\ phase = "run"
    /\ \E arg \in FreeInputs :
          /\ b' = buddy_free(b, arg[1], arg[2])
          /\ b_out' = IF arg \in BagToSet(b_out)
                      THEN b_out (-) SetToBag({arg}) ELSE b_out
          /\ last' = [op |-> "buddy_free", addr |-> arg[1], order |-> arg[2],
                      pre |-> b, events |-> BuddyFreeLocks(b, arg[1], arg[2])]
    /\ UNCHANGED <<phase, b_init, b_ret>>
    /\ UNCHANGED slabVars
    /\ UNCHANGED <<small_buf_caches, objmem, pipeVars>>

\* a run is followed up to the first call that buddy_free turned away, at
\* the first check or at the range check under the lock
NotTurnedAway ==
    ~(last.op = "buddy_free" /\ Wr(BuddyLock) \notin Range(last.events))

NextBuddyFree ==
    \/ BuddyInitOp /\ last' = NoCall /\ UNCHANGED <<small_buf_caches, objmem, pipeVars>>
    \/ NotTurnedAway /\ BuddyAllocOp /\ last' = NoCall
          /\ UNCHANGED <<small_buf_caches, objmem, pipeVars>>
    \/ NotTurnedAway /\ BuddyFreeCall

SpecBuddyFree == InitBuddy /\ [][NextBuddyFree]_vars

\* C29: a buddy_free(b, addr, order) whose addr is null or outside
\* [start, start + total_size), or whose order is outside
\* [MIN_ORDER, max_order], leaves every free list as it was and returns
\* with the buddy lock not held
BuddyFreeRejected ==
    last.op = "buddy_free" =>
        LET pre == last.pre
            addr == last.addr
            order == last.order
        IN  (\/ addr = NULL
             \/ addr < pre.start
             \/ addr >= pre.start + pre.total_size
             \/ order < MIN_ORDER
             \/ order > pre.max_order) =>
                /\ b.free = pre.free
                /\ BuddyLock \notin HeldAfter({}, last.events)

\* C29 witness: with a block outstanding and free blocks on the lists, the
\* first byte past the region was passed with an order in range, and the
\* call took the lock for the range check
BuddyFreeRejectedWitness ==
    /\ last.op = "buddy_free"
    /\ last.addr = last.pre.start + last.pre.total_size
    /\ last.order \in MIN_ORDER..last.pre.max_order
    /\ last.events # <<>>
    /\ b_out # EmptyBag
    /\ FreePages(b.free) > 0

\* ------------------------------------------------------------------------
\* The buddy allocator with the buddy_init call observed
\* ------------------------------------------------------------------------
\* buddy_init(b, start, end), with the region it was given
BuddyInitCall ==
    /\ phase = "boot"
    /\ \E r \in Regions :
          LET nb == buddy_init(b, r[1], r[2])
          IN  /\ b' = nb
              /\ b_init' = nb.free
              /\ last' = [op |-> "buddy_init", start |-> r[1], end |-> r[2]]
    /\ phase' = "run"
    /\ UNCHANGED <<b_out, b_ret>>
    /\ UNCHANGED slabVars
    /\ UNCHANGED <<small_buf_caches, objmem, pipeVars>>

NextBuddyInit ==
    \/ BuddyInitCall
    \/ BuddyAllocOp /\ last' = NoCall /\ UNCHANGED <<small_buf_caches, objmem, pipeVars>>
    \/ BuddyFreeOp /\ last' = NoCall /\ UNCHANGED <<small_buf_caches, objmem, pipeVars>>

SpecBuddyInit == InitBuddy /\ [][NextBuddyInit]_vars

AllocStarts(t, c) ==
    /\ pc[t] = "idle"
    /\ pc'[t] = "alloc"
    /\ loc'[t].cache = c

GeoSizes ==
    {1, 8, 9, 1000, 1020, 4096, 2097128, 3 * 1024 * 1024, 12 * 1024 * 1024,
     65 * 1024 * 1024}

\* c = kmem_cache_create(name, size, 0, 0), the one cache of the run
GeoCreate ==
    /\ DOMAIN caches = {}
    /\ last.op = "none"
    /\ \E size \in GeoSizes :
          /\ CacheCreateWith(size, FALSE)
          /\ last' = [op |-> "create", size |-> size, ret |-> b_ret']
    /\ UNCHANGED <<small_buf_caches, objmem, pipeVars>>

NextGeo ==
    \/ SysKmemInit /\ UNCHANGED callVars
    \/ GeoCreate
    \/ \E t \in Threads, c \in DOMAIN caches : AllocBegin(t, c) /\ UNCHANGED callVars
    \/ \E t \in Threads : AllocEnd(t) /\ UNCHANGED callVars
    \/ \E t \in Threads, h \in BagToSet(held) : FreeBegin(t, h) /\ UNCHANGED callVars
    \/ \E t \in Threads : FreeEnd(t) /\ UNCHANGED callVars

SpecGeo == InitKmalloc /\ [][NextGeo]_vars

\* n objects of obj_size bytes, the header and an n-bit bitmap fit in a slab
\* of 2^order pages
GeoFits(n, obj_size, order) ==
    ((SLAB_T_SIZE + ((n + 7) \div 8) + 7) \div 8) * 8 + n * obj_size
        <= BLOCK_SIZE * (2 ^ order)

\* the smallest order of orders on which n objects fit (-1 when on none)
GeoSmallest(n, obj_size, orders) ==
    LET ok == {o \in orders : GeoFits(n, obj_size, o)}
    IN  IF ok = {} THEN -1 ELSE CHOOSE o \in ok : \A q \in ok : o <= q

\* obj_size is size rounded up to a multiple of 8, and obj_per_slab is the
\* largest count that fits on a slab of the cache's order
GeoSizeAndCount(C, size) ==
    /\ C.obj_size % 8 = 0
    /\ C.obj_size >= size
    /\ C.obj_size < size + 8
    /\ GeoFits(C.obj_per_slab, C.obj_size, C.slab_order)
    /\ ~GeoFits(C.obj_per_slab + 1, C.obj_size, C.slab_order)

\* every slot of every slab of c lies inside the slab, after the header and
\* the bitmap, no two slots overlap, and every object held is a slot
GeoSlots(c) ==
    LET C == caches[c]
        n == C.obj_per_slab
    IN  /\ \A x \in SlabsOf(c) :
              LET slot(i) == slab_obj_start(x, c) + i * C.obj_size
              IN  /\ \A i \in 0..(n - 1) :
                        /\ slot(i) >= x + SLAB_T_SIZE + ((n + 7) \div 8)
                        /\ slot(i) + C.obj_size <= x + BLOCK_SIZE * (2 ^ C.slab_order)
                  /\ \A i \in 0..(n - 2) : slot(i) + C.obj_size <= slot(i + 1)
        /\ \A h \in BagToSet(held) :
              h.cache = c =>
                 /\ h.slab \in SlabsOf(c)
                 /\ h.i \in 0..(n - 1)
                 /\ h.obj = slab_obj_start(h.slab, c) + h.i * C.obj_size

\* C32, as the code has it: kmem_cache_create sets obj_size to size rounded
\* up to a multiple of 8, slab_order to the smallest order up to 10 on which
\* 4 objects fit, else to the smallest order up to 14 on which 1 fits, and
\* obj_per_slab to the largest n with ALIGN8(sizeof(slab_t) + ceil(n/8)) +
\* n * obj_size <= PAGE_SIZE * 2^slab_order; every slot lies inside its
\* slab, after the header and the bitmap, and no two slots overlap
CacheGeometry ==
    (last.op = "create" /\ last.ret \in DOMAIN caches) =>
        LET c == last.ret
            C == caches[c]
            good == GeoSmallest(MIN_OBJS_PER_SLAB, C.obj_size, 0..10)
        IN  /\ GeoSizeAndCount(C, last.size)
            /\ C.slab_order = IF good >= 0 THEN good
                              ELSE GeoSmallest(1, C.obj_size, 0..14)
            /\ GeoSlots(c)

\* C32 as stated: slab_order is the smallest order on which 4 objects fit,
\* among all the orders the buddy has
CacheGeometryAnyOrder ==
    (last.op = "create" /\ last.ret \in DOMAIN caches) =>
        LET c == last.ret
            C == caches[c]
            good == GeoSmallest(MIN_OBJS_PER_SLAB, C.obj_size, MIN_ORDER..MAX_ORDER)
        IN  /\ GeoSizeAndCount(C, last.size)
            /\ C.slab_order = IF good >= 0 THEN good
                              ELSE GeoSmallest(1, C.obj_size, MIN_ORDER..MAX_ORDER)
            /\ GeoSlots(c)

\* C32 witness: a cache of 2097128-byte objects is on slabs of order 10 with
\* two objects each, though four would fit on a slab of order 11, and both
\* objects of a slab are held
CacheGeometryWitness ==
    /\ last.op = "create"
    /\ last.size = 2097128
    /\ last.ret \in DOMAIN caches
    /\ caches[last.ret].slab_order = 10
    /\ caches[last.ret].obj_per_slab = 2
    /\ GeoFits(MIN_OBJS_PER_SLAB, caches[last.ret].obj_size, 11)
    /\ \E x \in SlabsOf(last.ret) : slabs[x].free_count = 0

\* C33: each new slab of a cache takes the cache's color_next as the offset
\* of its object array and color_next then advances modulo color_max + 1:
\* while a cache has made no more allocations than it has colours, so that
\* no colour has come round again, color_next is at least the number of its
\* slabs and at most the number of its allocations, and no two of its slabs
\* have their first object at the same offset
SlabColoring ==
    \A c \in DOMAIN caches :
        LET C == caches[c]
        IN  (Quiescent(c) /\ C.color_max >= C.alloc_count) =>
               /\ C.slab_count <= C.color_next
               /\ C.color_next <= C.alloc_count
               /\ \A x, y \in SlabsOf(c) :
                     x # y => slab_obj_start(x, c) - x # slab_obj_start(y, c) - y

\* the lowest slot of slab x whose bitmap bit is clear (-1 when all are set)
LowestFree(x) ==
    LET clear == {i \in 0..(caches[slabs[x].cache].obj_per_slab - 1) :
                     i \notin slabs[x].bitmap}
    IN  IF clear = {} THEN -1 ELSE CHOOSE i \in clear : \A j \in clear : i <= j

\* C34: between the calls that change it, every slab with free_count > 0 has
\* as next_free the lowest index whose bitmap bit is clear, and every slab
\* with free_count = 0 has next_free = -1; no kmem_cache_alloc leaves by the
\* invalid-index exit (error code 2), and the slot a kmem_cache_alloc is
\* about to hand out is the lowest free slot of the slab it chose
NextFreeHint ==
    /\ \A c \in DOMAIN caches :
          /\ caches[c].error # 2
          /\ \A x \in SlabsOf(c) :
                /\ slabs[x].free_count > 0 =>
                      /\ slabs[x].next_free >= 0
                      /\ slabs[x].next_free = LowestFree(x)
                /\ slabs[x].free_count = 0 => slabs[x].next_free = -1
    /\ \A t \in Threads :
          pc[t] = "alloc" =>
             /\ loc[t].i >= 0
             /\ loc[t].i = LowestFree(loc[t].slab)

\* C34 witness: slot 0 of a slab was freed while slot 1 is held, next_free
\* went back to 0, and a thread is about to hand out slot 0 again
NextFreeHintWitness ==
    \E t \in Threads :
        /\ pc[t] = "alloc"
        /\ loc[t].i = 0
        /\ 1 \in slabs[loc[t].slab].bitmap
        /\ caches[loc[t].cache].free_count_total >= 1

\* ------------------------------------------------------------------------
\* kmem_cache_free with pointers that are no slot, each call observed
\* ------------------------------------------------------------------------
\* object sizes: four objects on a one-page slab, two on an order-10 slab
AnySizes == {1000, 2097128}

\* the pointers passed to kmem_cache_free: for every slab, the second word
\* of its header, its bitmap, every slot start, the address one slot past
\* the last, and the second word of every slot
AnyPointers ==
    UNION {{x + 8, x + SLAB_T_SIZE}
              \cup SlotAddrs(slabs[x].cache, x)
              \cup {p + 8 : p \in SlotAddrs(slabs[x].cache, x)} :
           x \in {y \in DOMAIN slabs : slabs[y].cache \in DOMAIN caches}}

\* the client creates the one cache of the run
AnyCreate ==
    /\ DOMAIN caches = {}
    /\ \E size \in AnySizes : CacheCreateWith(size, FALSE)

\* kmem_cache_free(c, p) with any of the pointers
CallFreeAny ==
    \E c \in DOMAIN caches, objp \in AnyPointers :
        /\ FreeCall(Caller, c, objp)
        /\ last' = Observed("free", c, objp, NULL)
        /\ UNCHANGED <<small_buf_caches, objmem, pipeVars>>

NextFreeAny ==
    \/ Quiet(KInit)
    \/ Quiet(SysKmemInit)
    \/ Quiet(AnyCreate)
    \/ CallAlloc
    \/ ReturnAlloc
    \/ CallFreeAny
    \/ ReturnFree

SpecFreeAny == InitSlab /\ [][NextFreeAny]_vars

\* p is the start of a slot of cache c whose bitmap bit was set when the
\* call was made
AllocatedSlotStart(pre, c, p) ==
    \E x \in DOMAIN pre.slabs :
        /\ pre.slabs[x].live
        /\ pre.slabs[x].cache = c
        /\ \E i \in pre.slabs[x].bitmap :
              p = slab_obj_start(x, c) + i * pre.caches[c].obj_size

\* C35: a kmem_cache_free(C, p) that has returned changed a list, a counter,
\* a bitmap or a hint only if p is exactly the start of a slot of C that was
\* allocated; for every other p, a pointer into a header, a bitmap or the
\* inside of an object among them, it left an error code and freed nothing
FreeOnlySlotStarts ==
    (last.op = "free" /\ last.done) =>
        LET c == last.cache
            pre == last.pre
            changed == \/ [caches[c] EXCEPT !.error = 0]
                             # [pre.caches[c] EXCEPT !.error = 0]
                       \/ slabs # pre.slabs
                       \/ b # pre.b
        IN  ~AllocatedSlotStart(pre, c, last.obj) =>
               /\ ~changed
               /\ caches[c].error \in {3, 4}

\* ------------------------------------------------------------------------
\* kmem_cache_create and kmem_cache_destroy by two threads, each call in the
\* steps its locks divide it into
\* ------------------------------------------------------------------------
\* the most caches there are at a time
MaxRegistered == 3

\* object sizes: one that gives a cache, one no slab holds
RegSizes == {1000, 65 * 1024 * 1024}

\* the caches whose kmem_cache_create has not yet reached the registry
BeingCreated == {loc[t].cache : t \in {u \in Threads : pc[u] = "reg_push"}}

\* kmem_cache_create, slab.c:230-283: the descriptor page is taken from the
\* buddy and filled in; it goes back at once when no object fits
RegCreateBegin(t) ==
    /\ phase = "run"
    /\ pc[t] = "idle"
    /\ mode # "buddy"
    /\ Cardinality(DOMAIN caches) < MaxRegistered
    /\ \E size \in RegSizes :
          LET r == buddy_alloc(b, 0)
              cache == r.ret
              nc == NewCache(ALIGN8(size), FALSE)
          IN  IF cache = NULL
              THEN /\ b_ret' = NULL
                   /\ UNCHANGED <<b, b_out, caches, slabs, pc, loc>>
              ELSE IF nc.obj_per_slab <= 0
              THEN /\ b' = DescriptorReturned(r.b, cache)
                   /\ b_ret' = cache
                   /\ slabs' = Threaded(Overwritten(slabs, cache), b')
                   /\ UNCHANGED <<b_out, caches, pc, loc>>
              ELSE /\ b' = r.b
                   /\ b_ret' = cache
                   /\ b_out' = b_out (+) SetToBag({<<cache, 0>>})
                   /\ caches' = (cache :> [nc EXCEPT !.next = NULL]) @@ caches
                   /\ slabs' = Threaded(Overwritten(slabs, cache), b')
                   /\ pc' = [pc EXCEPT ![t] = "reg_push"]
                   /\ loc' = [loc EXCEPT ![t] = [NoLocals EXCEPT !.cache = cache]]
    /\ UNCHANGED <<phase, b_init, mode, registry, held>>

\* kmem_cache_create, slab.c:285-291: under slab_state.lock the cache is
\* pushed on the registry; the call returns
RegCreateEnd(t) ==
    /\ pc[t] = "reg_push"
    /\ caches' = [caches EXCEPT ![loc[t].cache].next = registry]
    /\ registry' = loc[t].cache
    /\ pc' = [pc EXCEPT ![t] = "idle"]
    /\ loc' = [loc EXCEPT ![t] = NoLocals]
    /\ UNCHANGED <<phase, mode, slabs, held>>
    /\ UNCHANGED buddyVars

\* kmem_cache_destroy(c), slab.c:501-534, for a cache some
\* kmem_cache_create returned: the slabs go back under the cache lock, then
\* under slab_state.lock the cache is taken out of the registry
RegDestroyBegin(t, c) ==
    /\ phase = "run"
    /\ pc[t] = "idle"
    /\ c \notin BeingCreated
    /\ CanAcquire(c)
    /\ LET w == Destroyed(c)
           u == Unregistered(c)
       IN  IF w.hang
           THEN /\ caches' = [caches EXCEPT ![c] = [w.C EXCEPT !.lock = t]]
                /\ pc' = [pc EXCEPT ![t] = "hang"]
                /\ UNCHANGED <<registry, held, loc>>
           ELSE /\ caches' = [x \in DOMAIN caches \ {c} |->
                                [caches[x] EXCEPT !.next = u.next[x]]]
                /\ registry' = u.head
                /\ held' = held (-) SetToBag({h \in BagToSet(held) : h.cache = c})
                /\ pc' = [pc EXCEPT ![t] = "reg_free"]
                /\ loc' = [loc EXCEPT ![t] = [NoLocals EXCEPT !.cache = c]]
           /\ slabs' = w.sl
           /\ b' = w.b
           /\ b_out' = w.out
    /\ UNCHANGED <<phase, mode, b_init, b_ret>>

\* kmem_cache_destroy, slab.c:536-541: the descriptor page goes back to the
\* buddy; the call returns
RegDestroyEnd(t) ==
    /\ pc[t] = "reg_free"
    /\ b' = buddy_free(b, loc[t].cache, 0)
    /\ b_out' = b_out (-) SetToBag({<<loc[t].cache, 0>>})
    /\ slabs' = Threaded(slabs, b')
    /\ pc' = [pc EXCEPT ![t] = "idle"]
    /\ loc' = [loc EXCEPT ![t] = NoLocals]
    /\ UNCHANGED <<phase, mode, b_init, b_ret, caches, registry, held>>

NextRegistry ==
    \/ KInit /\ UNCHANGED callVars
    \/ SysKmemInit /\ UNCHANGED callVars
    \/ \E t \in Threads : RegCreateBegin(t) /\ UNCHANGED callVars
    \/ \E t \in Threads : RegCreateEnd(t) /\ UNCHANGED callVars
    \/ \E t \in Threads, c \in DOMAIN caches : RegDestroyBegin(t, c) /\ UNCHANGED callVars
    \/ \E t \in Threads : RegDestroyEnd(t) /\ UNCHANGED callVars

SpecRegistry == InitSlab /\ [][NextRegistry]_vars

RECURSIVE RegistryFrom(_, _)
\* the caches met from x on by following next, -1 standing for a next that
\* leads to a cache met before or to a page that holds no cache
RegistryFrom(x, seen) ==
    IF x = NULL THEN <<>>
    ELSE IF x \in seen \/ x \notin DOMAIN caches THEN <<-1>>
    ELSE <<x>> \o RegistryFrom(caches[x].next, seen \cup {x})

\* C36: under every interleaving of the steps of concurrent
\* kmem_cache_create and kmem_cache_destroy calls the registry is a list
\* without a cycle that holds exactly the caches that were pushed by a
\* create and not yet taken out by a destroy, each once, and no destroyed
\* cache
RegistryConsistent ==
    LET list == RegistryFrom(registry, {})
    IN  /\ \A i \in 1..Len(list) : list[i] # -1
        /\ \A i, j \in 1..Len(list) : list[i] = list[j] => i = j
        /\ Range(list) = DOMAIN caches \ BeingCreated
        /\ \A t \in Threads : pc[t] = "reg_free" => loc[t].cache \notin Range(list)

\* C36 witness: one thread has taken a cache out of a registry of three and
\* not yet freed its page, while the other thread has filled in a new
\* descriptor it has not yet pushed; two caches are left on the registry
RegistryConsistentWitness ==
    /\ Len(RegistryFrom(registry, {})) = 2
    /\ Cardinality(DOMAIN caches) = 3
    /\ \E t, u \in Threads : pc[t] = "reg_free" /\ pc[u] = "reg_push"

\* ------------------------------------------------------------------------
\* pipe.c: the cache of struct pipe, made by the first pipealloc
\* ------------------------------------------------------------------------
\* pipe.c:14
PIPESIZE == 512

\* sizeof(struct pipe), pipe.c:16-23: a spinlock (locked, name, cpu: three
\* 8-byte slots), the data and four 4-byte fields
PipeStructSize == 3 * 8 + PIPESIZE + 4 * 4

\* holding(lk) of the kernel's spinlock: this cpu has the lock
PipeHolding(t) == pipe_cache_lock.locked = 1 /\ pipe_cache_lock.cpu = t

\* a step of pipealloc that only moves thread t on
PipeGoes(t, to) ==
    /\ pc' = [pc EXCEPT ![t] = to]
    /\ UNCHANGED <<phase, buddyVars, mode, caches, registry, slabs, held, loc>>
    /\ UNCHANGED <<small_buf_caches, objmem, last>>

\* pipe.c:38: if(!pipe_cache), the look without the lock; with the cache
\* there the call goes on to line 53 and is followed no further
PipeLook(t) ==
    /\ phase = "run"
    /\ mode = "kernel"
    /\ pc[t] = "idle"
    /\ pipe_cache = NULL
    /\ PipeGoes(t, "pa_inited")
    /\ UNCHANGED pipeVars

\* pipe.c:39: if(!pipe_cache_lock_inited)
PipeLookInited(t) ==
    /\ pc[t] = "pa_inited"
    /\ PipeGoes(t, IF pipe_cache_lock_inited = 0 THEN "pa_initlock" ELSE "pa_acquire")
    /\ UNCHANGED pipeVars

\* pipe.c:40: initlock(&pipe_cache_lock, "pipe_cache") sets the name and
\* clears locked and cpu
PipeInitlock(t) ==
    /\ pc[t] = "pa_initlock"
    /\ pipe_cache_lock' = [name |-> "pipe_cache", locked |-> 0, cpu |-> 0]
    /\ PipeGoes(t, "pa_setinited")
    /\ UNCHANGED <<pipe_cache, pipe_cache_lock_inited>>

\* pipe.c:41: pipe_cache_lock_inited = 1
PipeSetInited(t) ==
    /\ pc[t] = "pa_setinited"
    /\ pipe_cache_lock_inited' = 1
    /\ PipeGoes(t, "pa_acquire")
    /\ UNCHANGED <<pipe_cache, pipe_cache_lock>>

\* pipe.c:43: acquire(&pipe_cache_lock) panics when this cpu has the lock,
\* spins while locked is set, then sets locked and cpu
PipeAcquire(t) ==
    /\ pc[t] = "pa_acquire"
    /\ pipe_cache_lock.locked = 0
    /\ pipe_cache_lock' = [pipe_cache_lock EXCEPT !.locked = 1, !.cpu = t]
    /\ PipeGoes(t, "pa_look")
    /\ UNCHANGED <<pipe_cache, pipe_cache_lock_inited>>

\* pipe.c:44: if(!pipe_cache), the look inside the critical section
PipeLookAgain(t) ==
    /\ pc[t] = "pa_look"
    /\ PipeGoes(t, IF pipe_cache = NULL THEN "pa_create" ELSE "pa_release")
    /\ UNCHANGED pipeVars

\* pipe.c:45: kmem_cache_create("pipe", sizeof(struct pipe), 0, 0)
PipeCreate(t) ==
    /\ pc[t] = "pa_create"
    /\ CreateCache(PipeStructSize, FALSE)
    /\ pc' = [pc EXCEPT ![t] = "pa_store"]
    /\ loc' = [loc EXCEPT ![t] = [NoLocals EXCEPT !.cache =
                                    IF registry' # registry THEN registry' ELSE NULL]]
    /\ UNCHANGED callVars

\* pipe.c:45-47: the result is stored in pipe_cache; a null result panics
PipeStore(t) ==
    /\ pc[t] = "pa_store"
    /\ pipe_cache' = loc[t].cache
    /\ pc' = [pc EXCEPT ![t] = IF loc[t].cache = NULL THEN "panic" ELSE "pa_release"]
    /\ loc' = [loc EXCEPT ![t] = NoLocals]
    /\ UNCHANGED <<phase, buddyVars, mode, caches, registry, slabs, held>>
    /\ UNCHANGED <<small_buf_caches, objmem, last, pipe_cache_lock, pipe_cache_lock_inited>>

\* pipe.c:49: release(&pipe_cache_lock) panics unless this cpu has the
\* lock, then clears cpu and locked
PipeRelease(t) ==
    /\ pc[t] = "pa_release"
    /\ IF PipeHolding(t)
       THEN /\ pipe_cache_lock' = [pipe_cache_lock EXCEPT !.locked = 0, !.cpu = 0]
            /\ PipeGoes(t, "idle")
       ELSE /\ PipeGoes(t, "panic")
            /\ UNCHANGED pipe_cache_lock
    /\ UNCHANGED <<pipe_cache, pipe_cache_lock_inited>>

\* panic() stops the kernel: no cpu takes another step
PipeRunning == \A t \in Threads : pc[t] # "panic"

InitPipe == InitSlab /\ mode = "kernel"

NextPipe ==
    \/ KInit /\ UNCHANGED callVars
    \/ \E t \in Threads : PipeRunning /\ PipeLook(t)
    \/ \E t \in Threads : PipeRunning /\ PipeLookInited(t)
    \/ \E t \in Threads : PipeRunning /\ PipeInitlock(t)
    \/ \E t \in Threads : PipeRunning /\ PipeSetInited(t)
    \/ \E t \in Threads : PipeRunning /\ PipeAcquire(t)
    \/ \E t \in Threads : PipeRunning /\ PipeLookAgain(t)
    \/ \E t \in Threads : PipeRunning /\ PipeCreate(t)
    \/ \E t \in Threads : PipeRunning /\ PipeStore(t)
    \/ \E t \in Threads : PipeRunning /\ PipeRelease(t)

SpecPipe == InitPipe /\ [][NextPipe]_vars

\* the threads between acquire and release of pipe_cache_lock
PipeInside == {t \in Threads : pc[t] \in {"pa_look", "pa_create", "pa_store", "pa_release"}}

\* the caches of struct pipe that were made
PipeCaches == {c \in DOMAIN caches : caches[c].obj_size = ALIGN8(PipeStructSize)}

\* C37: however the first pipealloc calls of several cpus interleave,
\* pipe_cache_lock has been through initlock before it is acquired and is
\* not put through initlock again while it is held, at most one thread is
\* between acquire and release, and kmem_cache_create("pipe", ...) runs once
PipeCacheOnce ==
    /\ [](/\ \A t \in PipeInside : pipe_cache_lock.name = "pipe_cache"
          /\ Cardinality(PipeInside) <= 1
          /\ Cardinality(PipeCaches) <= 1
          /\ \A t \in Threads : pc[t] = "idle" /\ pipe_cache # NULL
                => PipeCaches = {pipe_cache})
    /\ [][\A t \in Threads : PipeInitlock(t) => pipe_cache_lock.locked = 0]_vars

=============================================================================
